---------------------------- MODULE Spec2Model ----------------------------
(***************************************************************************)
(* Entity resolution of the bumpti hydration scripts.                      *)
(*                                                                         *)
(* The module models the three resolvers of the repository                 *)
(*   - deduplicate_pois_in_memory  (hydration/deduplication.py)            *)
(*   - _simple_dedup               (hydration/deduplication.py)            *)
(*   - deduplicate_staging_pois    (hydrate_overture_city.py, main)        *)
(* over a batch of rows, and the commit of a batch to the sink.            *)
(*                                                                         *)
(* Text is modelled character by character: a string is a tuple of         *)
(* one-character strings ("u:" stands for u with diaeresis), so that       *)
(* normalize_text and the token-set similarity are computed, not assumed.  *)
(* Python's None is the string "None" where the field is a string and the  *)
(* empty tuple where the field is text (the code tests both with `not`).   *)
(* Coordinates are integers in units of 1/DEG_TO_M degree on one axis.     *)
(***************************************************************************)
EXTENDS Integers, Sequences, FiniteSets, TLC

None == "None"

(***************************************************************************)
(* Text                                                                    *)
(***************************************************************************)
UpperCase ==
    <<"A", "B", "C", "D", "E", "F", "G", "H", "I", "J", "K", "L", "M",
      "N", "O", "P", "Q", "R", "S", "T", "U", "V", "W", "X", "Y", "Z">>

LowerCase ==
    <<"a", "b", "c", "d", "e", "f", "g", "h", "i", "j", "k", "l", "m",
      "n", "o", "p", "q", "r", "s", "t", "u", "v", "w", "x", "y", "z">>

\* Code-point order of the characters the model uses (space first).
Alphabet ==
    <<" ">> \o <<"0", "1", "2", "3", "4", "5", "6", "7", "8", "9">>
            \o UpperCase \o LowerCase \o <<"a~", "u:">>

Ord(c) == CHOOSE k \in 1..Len(Alphabet) : Alphabet[k] = c

\* unidecode(): transliteration to ASCII, one character at a time.
unidecode(c) ==
    CASE c = "u:" -> "u"
      [] c = "a~" -> "a"
      [] OTHER    -> c

\* str.lower(), one character at a time.
lower(c) ==
    IF \E k \in 1..26 : UpperCase[k] = c
    THEN LowerCase[CHOOSE k \in 1..26 : UpperCase[k] = c]
    ELSE c

\* str.strip(): without the leading and trailing whitespace.
strip(s) ==
    LET inked == {k \in 1..Len(s) : s[k] # " "}
    IN  IF inked = {} THEN <<>>
        ELSE SubSeq(s, CHOOSE k \in inked : \A x \in inked : k <= x,
                       CHOOSE k \in inked : \A x \in inked : k >= x)

\* str.lower() of a whole string
lowerText(s) == [k \in 1..Len(s) |-> lower(s[k])]

\* normalize_text: unidecode(text).lower().strip(), "" for a falsy text.
normalize_text(text) ==
    IF text = <<>>
    THEN <<>>
    ELSE strip([k \in 1..Len(text) |-> lower(unidecode(text[k]))])

\* str.split(): the maximal runs of non-whitespace characters, as a set.
TokenSet(s) ==
    {SubSeq(s, a, b) : <<a, b>> \in
        {p \in (1..Len(s)) \X (1..Len(s)) :
            /\ p[1] <= p[2]
            /\ \A k \in p[1]..p[2] : s[k] # " "
            /\ (p[1] = 1 \/ s[p[1] - 1] = " ")
            /\ (p[2] = Len(s) \/ s[p[2] + 1] = " ")}}

\* Lexicographic order of two strings, as Python's sorted() compares them.
LexLess(a, b) ==
    \E k \in 1..(Len(b)) :
        /\ k <= Len(a) + 1
        /\ \A h \in 1..(k - 1) : a[h] = b[h]
        /\ (k = Len(a) + 1 \/ Ord(a[k]) < Ord(b[k]))

\* " ".join(sorted(tokens))
RECURSIVE JoinSorted(_)
JoinSorted(toks) ==
    IF toks = {} THEN <<>>
    ELSE LET m == CHOOSE t \in toks : \A u \in toks \ {t} : LexLess(t, u)
             rest == JoinSorted(toks \ {m})
         IN  IF rest = <<>> THEN m ELSE m \o <<" ">> \o rest

\* Length of the longest common subsequence of a and b, by rows of the
\* dynamic-programming table: row[j + 1] is the length for the prefix of a
\* read so far and the first j characters of b. A row entry is the largest
\* of the candidates of its columns so far (the table is monotone).
LcsRow(prev, c, b) ==
    LET cand(j) == IF c = b[j] THEN prev[j] + 1 ELSE prev[j + 1]
        row == [x \in 1..(Len(b) + 1) |->
                   IF x = 1 THEN 0
                   ELSE LET cs == {cand(j) : j \in 1..(x - 1)}
                        IN  CHOOSE m \in cs : \A y \in cs : m >= y]
    IN  SubSeq(row, 1, Len(b) + 1)

RECURSIVE LcsFrom(_, _, _, _)
LcsFrom(a, k, b, prev) ==
    IF k > Len(a) THEN prev[Len(b) + 1]
    ELSE LET row == LcsRow(prev, a[k], b)
         IN  IF Len(row) = Len(b) + 1 THEN LcsFrom(a, k + 1, b, row) ELSE 0

LCS(a, b) == LcsFrom(a, 1, b, [j \in 1..(Len(b) + 1) |-> 0])

\* rapidfuzz Indel distance: insertions and deletions only.
indel_distance(a, b) == Len(a) + Len(b) - 2 * LCS(a, b)

\* rapidfuzz _norm_distance, in hundredths of a percent, rounded down:
\* 100 - 100 * dist / lensum, and 100 for an empty pair.
norm_distance(dist, lensum) ==
    IF lensum = 0 THEN 10000 ELSE (10000 * (lensum - dist)) \div lensum

Max2(x, y) == IF x >= y THEN x ELSE y

\* rapidfuzz fuzz.token_set_ratio(s1, s2), in hundredths of a percent.
token_set_ratio(s1, s2) ==
    LET tokens_a == TokenSet(s1)
        tokens_b == TokenSet(s2)
        intersect == tokens_a \cap tokens_b
        diff_ab == JoinSorted(tokens_a \ tokens_b)
        diff_ba == JoinSorted(tokens_b \ tokens_a)
        sect_len == Len(JoinSorted(intersect))
        sep == IF sect_len > 0 THEN 1 ELSE 0
        sect_ab_len == sect_len + sep + Len(diff_ab)
        sect_ba_len == sect_len + sep + Len(diff_ba)
        result == norm_distance(indel_distance(diff_ab, diff_ba),
                                sect_ab_len + sect_ba_len)
        sect_ab_ratio == norm_distance(sep + Len(diff_ab), sect_len + sect_ab_len)
        sect_ba_ratio == norm_distance(sep + Len(diff_ba), sect_len + sect_ba_len)
    IN  IF tokens_a = {} \/ tokens_b = {} THEN 0
        ELSE IF intersect # {} /\ (diff_ab = <<>> \/ diff_ba = <<>>) THEN 10000
        ELSE IF sect_len = 0 THEN result
        ELSE Max2(result, Max2(sect_ab_ratio, sect_ba_ratio))

\* fuzzy_match with rapidfuzz present: 0.0 for an empty name, else the
\* token-set ratio of the normalized names (hundredths of a percent).
fuzzy_match(name1, name2) ==
    LET norm1 == normalize_text(name1)
        norm2 == normalize_text(name2)
    IN  IF norm1 = <<>> \/ norm2 = <<>> THEN 0 ELSE token_set_ratio(norm1, norm2)

\* FUZZY_THRESHOLD = 0.90, in hundredths of a percent.
FUZZY_THRESHOLD == 9000

(***************************************************************************)
(* Names used by the batches                                               *)
(***************************************************************************)
NameBarigui ==
    <<"P", "a", "r", "q", "u", "e", " ", "B", "a", "r", "i", "g", "u", "i">>
NameBariguiTypo ==
    <<"P", "a", "r", "q", "u", "e", " ", "B", "a", "r", "i", "g", "u:", "i">>
NameBariguiFull ==
    <<"P", "a", "r", "q", "u", "e", " ", "M", "u", "n", "i", "c", "i", "p", "a", "l",
      " ", "d", "o", " ", "B", "a", "r", "i", "g", "u", "i">>
NameMunicipal ==
    <<"P", "a", "r", "q", "u", "e", " ", "M", "u", "n", "i", "c", "i", "p", "a", "l">>
NameBacacheri ==
    <<"P", "a", "r", "q", "u", "e", " ", "B", "a", "c", "a", "c", "h", "e", "r", "i">>
NameBariguiUpper ==
    <<"P", "A", "R", "Q", "U", "E", " ", "B", "A", "R", "I", "G", "U", "I", " ">>
NamePadaria ==
    <<"P", "a", "d", "a", "r", "i", "a", " ", "C", "e", "n", "t", "r", "a", "l">>
NameJardim ==
    <<"J", "a", "r", "d", "i", "m", " ", "B", "o", "t", "a", "n", "i", "c", "o">>

(***************************************************************************)
(* Rows, geometry and configuration                                        *)
(***************************************************************************)
\* A geometry decoded from GEOM_WKB, on one axis: a point has lo = hi. A
\* missing or undecodable geometry has kind "None". `irregular` is the
\* outcome of the regularity test of is_real_polygon (relative variance of
\* the vertex distances above 0.001).
NoGeom == [kind |-> "None", lo |-> 0, hi |-> 0, vertices |-> 0, irregular |-> FALSE]

Pt(x) == [kind |-> "Point", lo |-> x, hi |-> x, vertices |-> 1, irregular |-> FALSE]

Polygon(lo, hi, n, irr) ==
    [kind |-> "Polygon", lo |-> lo, hi |-> hi, vertices |-> n, irregular |-> irr]

\* A row of the DuckDB query, by the columns of POIColumn that the
\* resolvers read; relevance_score is the score the row is staged with.
Row(id, name, cat, geom, street, hn, postal, web, soc, conf, rel) ==
    [overture_id |-> id, name |-> name, overture_category |-> cat,
     geom |-> geom, street |-> street, house_number |-> hn,
     postal_code |-> postal, websites |-> web, socials |-> soc,
     confidence |-> conf, relevance_score |-> rel]

\* config['categories']['mapping']: source category -> internal category.
CategoryMapping ==
    [c \in {"park", "botanical_garden", "college_university"} |->
        CASE c = "park" -> "park"
          [] c = "botanical_garden" -> "park"
          [] c = "college_university" -> "university"]

\* category_map.get(overture_cat, overture_cat)
InternalCategory(cat) ==
    IF cat \in DOMAIN CategoryMapping THEN CategoryMapping[cat] ELSE cat

LARGE_VENUE_CATEGORIES ==
    {"park", "stadium", "shopping", "university", "event_venue", "club"}

LARGE_VENUE_THRESHOLD_M == 1500

DEFAULT_THRESHOLD_M == 30

\* search_geom.buffer(0.015), in units of 1/DEG_TO_M degree: 0.015 * 111000.
SEARCH_BUFFER == 1665

\* Python truthiness of an optional string field.
Truthy(s) == s # None /\ s # ""

\* is_real_polygon
is_real_polygon(geom) ==
    CASE geom.kind = "None"    -> FALSE
      [] geom.kind = "Point"   -> FALSE
      [] geom.kind = "Polygon" -> IF geom.vertices >= 30 THEN geom.irregular ELSE TRUE

\* calculate_completeness_score with a polygon bonus of 100.
calculate_completeness_score_small_bonus(row, has_real_polygon) ==
      (IF has_real_polygon THEN 100 ELSE 0)
    + (IF Truthy(row.street) THEN 10 ELSE 0)
    + (IF Truthy(row.house_number) THEN 10 ELSE 0)
    + (IF Truthy(row.postal_code) THEN 10 ELSE 0)
    + (IF row.websites # <<>> THEN 5 ELSE 0)
    + (IF row.socials # <<>> THEN 5 ELSE 0)
    + (IF row.confidence # 0 THEN row.confidence ELSE 0)

\* calculate_completeness_score; confidence is held in hundredths, so
\* int(confidence * 100) is the field itself.
calculate_completeness_score(row, has_real_polygon) ==
      (IF has_real_polygon THEN 1000 ELSE 0)
    + (IF Truthy(row.street) THEN 10 ELSE 0)
    + (IF Truthy(row.house_number) THEN 10 ELSE 0)
    + (IF Truthy(row.postal_code) THEN 10 ELSE 0)
    + (IF row.websites # <<>> THEN 5 ELSE 0)
    + (IF row.socials # <<>> THEN 5 ELSE 0)
    + (IF row.confidence # 0 THEN row.confidence ELSE 0)

\* shapely intersects and distance on one axis.
Intersects(g, h) == g.lo <= h.hi /\ h.lo <= g.hi

Distance(g, h) ==
    IF Intersects(g, h) THEN 0
    ELSE IF g.hi < h.lo THEN h.lo - g.hi ELSE g.lo - h.hi

\* The search area of row_i: its geometry, buffered by 0.015 degree when it
\* is a point.
SearchGeom(geom) ==
    IF geom.kind = "Point"
    THEN [geom EXCEPT !.lo = geom.lo - SEARCH_BUFFER, !.hi = geom.hi + SEARCH_BUFFER]
    ELSE geom

(***************************************************************************)
(* The rows the batches are drawn from                                     *)
(***************************************************************************)
RowBarigui ==
    Row("barigui-123", NameBarigui, "park", Pt(0),
        "", "", "82000", <<>>, <<>>, 90, 120)
RowTypo ==
    Row("typo-456", NameBariguiTypo, "park", Pt(30),
        "", "", "82000", <<>>, <<>>, 90, 80)
RowFull ==
    Row("full-789", NameBariguiFull, "botanical_garden", Pt(20),
        "Avenida Candido Hartmann", "", "82000", <<"site">>, <<>>, 95, 100)
RowFullRich ==
    Row("fullrich-1", NameBariguiFull, "park", Pt(25),
        "Avenida Candido Hartmann", "1000", "82000", <<"site">>, <<"instagram">>, 100, 95)
RowMunicipal ==
    Row("municipal-1", NameMunicipal, "park", Pt(1000),
        "Avenida Candido Hartmann", "", "82000", <<"site">>, <<"instagram">>, 95, 90)
RowBacacheri ==
    Row("bacacheri-456", NameBacacheri, "park", Pt(60),
        "", "", "82000", <<>>, <<>>, 90, 100)
RowUniversity ==
    Row("uni-1", NameBariguiUpper, "college_university", Pt(0),
        "", "", "", <<>>, <<"instagram">>, 85, 130)
RowStore1 ==
    Row("store1-123", NamePadaria, "bakery", Pt(0),
        "Rua XV", "100", "80000", <<>>, <<>>, 75, 100)
RowStore2 ==
    Row("store2-456", NamePadaria, "bakery", Pt(16),
        "Rua XV", "200", "80000", <<"site">>, <<>>, 75, 120)
RowNoGeom ==
    Row("nogeom-1", NameBarigui, "park", NoGeom,
        "", "", "82000", <<"site">>, <<"instagram">>, 100, 110)
RowPolygon ==
    Row("poly-1", NameBarigui, "park", Polygon(-100, 100, 12, TRUE),
        "", "", "", <<>>, <<>>, 60, 70)

\* Rows that carry the source id of RowBarigui under another name and
\* address (the provider inconsistency of test_gers_id_priority).
RowGersOther ==
    Row("barigui-123", NameJardim, "park", Pt(0),
        "Rua B", "102", "80100", <<>>, <<>>, 80, 120)
RowGersTypo ==
    Row("barigui-123", NameBariguiTypo, "park", Pt(0),
        "Rua A", "100", "80000", <<>>, <<>>, 70, 100)

Rows ==
    {RowBarigui, RowTypo, RowFull, RowFullRich, RowMunicipal, RowBacacheri,
     RowUniversity, RowStore1, RowStore2, RowNoGeom, RowPolygon}

\* A row whose GEOM_WKB does not decode (shapely_wkb.loads raises): the
\* frame holds it with geometry None, like a row without GEOM_WKB.
RowBadWkb ==
    Row("badwkb-1", NameBariguiTypo, "park", NoGeom,
        "Avenida Candido Hartmann", "", "82000", <<"site">>, <<>>, 95, 100)

\* The rows of the batches that hold rows without a usable geometry.
RowsGeom == {RowBarigui, RowTypo, RowFull, RowPolygon, RowNoGeom, RowBadWkb}

\* The rows of the batches in which a source id occurs twice.
RowsDup == {RowBarigui, RowGersOther, RowGersTypo, RowFull, RowStore1}

\* The names of the rows, and the text functions tabulated over them (each
\* table entry is the function applied to the name; the comparison makes
\* the table explicit, so that an entry is computed once).

NameSet == {r.name : r \in Rows \cup RowsDup \cup RowsGeom}

NormName ==
    LET f == [n \in NameSet |-> normalize_text(n)]
    IN  IF f = f THEN f ELSE f

Similarity ==
    LET f == [p \in NameSet \X NameSet |-> fuzzy_match(p[1], p[2])]
    IN  IF f = f THEN f ELSE f

LowerStripped ==
    LET f == [n \in NameSet |-> strip(lowerText(n))]
    IN  IF f = f THEN f ELSE f

\* Largest batch drawn.
MaxBatch == 3

\* The batches: sequences of distinct rows, at most MaxBatch long.
Batches(pool) ==
    UNION {{b \in [1..n -> pool] : \A x, y \in 1..n : x # y => b[x] # b[y]}
           : n \in 0..MaxBatch}

(***************************************************************************)
(* Python dictionaries and list helpers                                    *)
(***************************************************************************)
EmptyDict == [k \in {} |-> None]

\* d[k] = v
DictPut(d, k, v) == [x \in (DOMAIN d) \cup {k} |-> IF x = k THEN v ELSE d[x]]

\* The dict built by assigning the <<key, value>> pairs of a list in order.
RECURSIVE DictFromPairs(_, _)
DictFromPairs(d, pairs) ==
    IF pairs = <<>> THEN d
    ELSE DictFromPairs(DictPut(d, Head(pairs)[1], Head(pairs)[2]), Tail(pairs))

\* The elements of a set of integers as a list, ascending or descending.
RECURSIVE Ascending(_)
Ascending(S) ==
    IF S = {} THEN <<>>
    ELSE LET m == CHOOSE x \in S : \A y \in S : x <= y
         IN  <<m>> \o Ascending(S \ {m})

RECURSIVE Descending(_)
Descending(S) ==
    IF S = {} THEN <<>>
    ELSE LET m == CHOOSE x \in S : \A y \in S : x >= y
         IN  <<m>> \o Descending(S \ {m})

RECURSIVE Concat(_)
Concat(seqs) == IF seqs = <<>> THEN <<>> ELSE Head(seqs) \o Concat(Tail(seqs))

(***************************************************************************)
(* State                                                                   *)
(***************************************************************************)
VARIABLES
    batch,               \* pois_list / the rows fetched for the city
    variant,             \* which resolver runs: "elite", "simple", "staging"
    liveRows,            \* whether gdf.iterrows() shows writes made while iterating
    queryDesc,           \* whether sindex.query returns the hits in descending order
    pc,                  \* position of the run
    i,                   \* index of row_i in the outer loop of phase 2
    possible_idx,        \* hits of the spatial query still to visit for row_i
    merged_into,         \* the merged_into column of gdf
    clusters,            \* clusters of deduplicate_staging_pois
    winners,             \* returned winners
    duplicate_mappings,  \* returned loser id -> winner id
    run,                 \* 1 for the first pass over the batch, 2 for the repeat
    first,               \* what the first pass returned
    store,               \* the sink: persisted winners and duplicate mappings
    input,               \* the arguments of the function or loop under study
    output               \* its locals and its return value

vars ==
    <<batch, variant, liveRows, queryDesc, pc, i, possible_idx, merged_into,
      clusters, winners, duplicate_mappings, run, first, store, input, output>>

N == Len(batch)

EmptyStore == [places |-> {}, mappings |-> EmptyDict]

NoResult == [winners |-> <<>>, duplicate_mappings |-> EmptyDict, store |-> EmptyStore]

(***************************************************************************)
(* deduplicate_pois_in_memory                                              *)
(***************************************************************************)
\* Phase 1: every row enters the frame with merged_into = None.
PoiGeometries(rows) == [k \in 1..Len(rows) |-> None]

\* The check of row_i at the head of the outer loop. iterrows() hands out
\* rows of the frame as it was when the iteration began unless the build
\* shows writes (liveRows).
RowIMerged(k) == liveRows /\ merged_into[k] # None

\* gdf.sindex.query(search_geom, predicate='intersects'): rows without a
\* geometry are not in the index; the order of the hits is not specified.
\* The hits in an order that changes from one call of the resolver to the next.
SindexQueryUnstable(k) ==
    LET hits == {j \in 1..N :
                    /\ batch[j].geom.kind # "None"
                    /\ Intersects(SearchGeom(batch[k].geom), batch[j].geom)}
    IN  IF run = 1 THEN Ascending(hits) ELSE Descending(hits)

SindexQuery(k) ==
    LET hits == {j \in 1..N :
                    /\ batch[j].geom.kind # "None"
                    /\ Intersects(SearchGeom(batch[k].geom), batch[j].geom)}
    IN  IF queryDesc THEN Descending(hits) ELSE Ascending(hits)

\* CATEGORY PROTECTION
SameCategory(row_i, row_j) ==
    InternalCategory(row_i.overture_category) = InternalCategory(row_j.overture_category)

\* The inner loop without its name test.
NameMatchesAlways(row_i, row_j) == TRUE

\* FUZZY NAME MATCH: `if similarity < FUZZY_THRESHOLD: continue`
NameMatches(row_i, row_j) ==
    Similarity[<<row_i.name, row_j.name>>] >= FUZZY_THRESHOLD

\* The proximity threshold without the large-venue case.
ThresholdOfDefault(row_i) == DEFAULT_THRESHOLD_M

\* The proximity threshold of row_i's category.
ThresholdOf(row_i) ==
    IF InternalCategory(row_i.overture_category) \in LARGE_VENUE_CATEGORIES
    THEN LARGE_VENUE_THRESHOLD_M
    ELSE DEFAULT_THRESHOLD_M

\* The intersection test without the proximity fallback.
NearIntersectsOnly(row_i, row_j) == Intersects(row_i.geom, row_j.geom)

\* Intersection, with proximity as fallback.
Near(row_i, row_j) ==
    \/ Intersects(row_i.geom, row_j.geom)
    \/ Distance(row_i.geom, row_j.geom) <= ThresholdOf(row_i)

CompletenessOf(row) == calculate_completeness_score(row, is_real_polygon(row.geom))

\* A tie decided differently from one call of the resolver to the next.
IWinsUnstableTie(i_score, j_score) ==
    IF run = 1 THEN i_score >= j_score ELSE i_score > j_score

\* `if i_score >= j_score`: row_i is the winner.
IWins(i_score, j_score) == i_score >= j_score

\* Whether the body of the inner loop reaches MATCH FOUND for (k, j).
MatchFound(k, j) ==
    /\ k < j
    /\ merged_into[j] = None
    /\ batch[j].geom.kind # "None"
    /\ SameCategory(batch[k], batch[j])
    /\ NameMatches(batch[k], batch[j])
    /\ Near(batch[k], batch[j])

\* Phase 3 that returns only the rows that have a geometry.
Phase3WinnersLocated(m) ==
    LET keep == {k \in 1..N : m[k] = None /\ batch[k].geom.kind # "None"}
        order == Ascending(keep)
    IN  [x \in 1..Len(order) |-> batch[order[x]]]

\* Phase 3: winners and duplicate_mappings from the merged_into column.
Phase3Winners(m) ==
    LET keep == {k \in 1..N : m[k] = None}
        order == Ascending(keep)
    IN  [x \in 1..Len(order) |-> batch[order[x]]]

Phase3Mappings(m) ==
    LET lost == Ascending({k \in 1..N : m[k] # None})
    IN  DictFromPairs(EmptyDict,
                      [x \in 1..Len(lost) |-> <<batch[lost[x]].overture_id, m[lost[x]]>>])

\* `if not pois_list: return [], {}, {}`, else phase 1.
EliteStart ==
    /\ pc = "start"
    /\ variant = "elite"
    /\ IF batch = <<>>
       THEN /\ pc' = "done"
            /\ winners' = <<>>
            /\ duplicate_mappings' = EmptyDict
            /\ UNCHANGED <<i, merged_into>>
       ELSE /\ pc' = "outer"
            /\ i' = 1
            /\ merged_into' = PoiGeometries(batch)
            /\ UNCHANGED <<winners, duplicate_mappings>>
    /\ UNCHANGED <<input, output, batch, variant, liveRows, queryDesc, possible_idx, clusters,
                   run, first, store>>

\* The head of one iteration of `for i, row_i in gdf.iterrows()`.
EliteOuter ==
    /\ pc = "outer"
    /\ i <= N
    /\ IF RowIMerged(i) \/ batch[i].geom.kind = "None"
       THEN /\ i' = i + 1
            /\ UNCHANGED <<pc, possible_idx>>
       ELSE /\ possible_idx' = SindexQuery(i)
            /\ pc' = "inner"
            /\ UNCHANGED i
    /\ UNCHANGED <<input, output, batch, variant, liveRows, queryDesc, merged_into, clusters,
                   winners, duplicate_mappings, run, first, store>>

\* One iteration of `for j in possible_idx`, and the step to the next row_i
\* after the last one.
EliteInner ==
    /\ pc = "inner"
    /\ IF possible_idx = <<>>
       THEN /\ pc' = "outer"
            /\ i' = i + 1
            /\ UNCHANGED <<possible_idx, merged_into>>
       ELSE LET j == Head(possible_idx)
                i_score == CompletenessOf(batch[i])
                j_score == CompletenessOf(batch[j])
                winner_idx == IF IWins(i_score, j_score) THEN i ELSE j
                loser_idx == IF IWins(i_score, j_score) THEN j ELSE i
            IN  /\ possible_idx' = Tail(possible_idx)
                /\ merged_into' =
                       IF MatchFound(i, j)
                       THEN [merged_into EXCEPT ![loser_idx] = batch[winner_idx].overture_id]
                       ELSE merged_into
                /\ UNCHANGED <<pc, i>>
    /\ UNCHANGED <<input, output, batch, variant, liveRows, queryDesc, clusters, winners,
                   duplicate_mappings, run, first, store>>

\* Phase 3.
ElitePhase3 ==
    /\ pc = "outer"
    /\ i > N
    /\ winners' = Phase3Winners(merged_into)
    /\ duplicate_mappings' = Phase3Mappings(merged_into)
    /\ pc' = "done"
    /\ UNCHANGED <<input, output, batch, variant, liveRows, queryDesc, i, possible_idx,
                   merged_into, clusters, run, first, store>>

(***************************************************************************)
(* _simple_dedup                                                           *)
(***************************************************************************)
\* key = (norm_name, internal_cat)
GroupKey(row) ==
    <<NormName[row.name], InternalCategory(row.overture_category)>>

\* The keys of `groups`, in insertion order: the rows that open a group.
GroupHeads(rows) ==
    Ascending({k \in 1..Len(rows) :
                  \A h \in 1..(k - 1) : GroupKey(rows[h]) # GroupKey(rows[k])})

\* groups[key]
GroupOf(rows, k) == {x \in 1..Len(rows) : GroupKey(rows[x]) = GroupKey(rows[k])}

\* scores.sort() without reverse=True: ascending score and index.
RECURSIVE ScoresSortedAscending(_, _)
ScoresSortedAscending(rows, S) ==
    IF S = {} THEN <<>>
    ELSE LET sc(x) == calculate_completeness_score(rows[x], FALSE)
             m == CHOOSE x \in S : \A y \in S \ {x} :
                      sc(x) < sc(y) \/ (sc(y) = sc(x) /\ x < y)
         IN  <<m>> \o ScoresSortedAscending(rows, S \ {m})

\* scores.sort(reverse=True) over (score, idx) pairs: the indices by
\* descending score, and descending index among equal scores.
RECURSIVE ScoresSorted(_, _)
ScoresSorted(rows, S) ==
    IF S = {} THEN <<>>
    ELSE LET sc(x) == calculate_completeness_score(rows[x], FALSE)
             m == CHOOSE x \in S : \A y \in S \ {x} :
                      sc(y) < sc(x) \/ (sc(y) = sc(x) /\ y < x)
         IN  <<m>> \o ScoresSorted(rows, S \ {m})

SimpleWinners(rows) ==
    LET heads == GroupHeads(rows)
    IN  [x \in 1..Len(heads) |-> rows[ScoresSorted(rows, GroupOf(rows, heads[x]))[1]]]

SimpleMappings(rows) ==
    LET heads == GroupHeads(rows)
        pairsOf(k) ==
            LET scores == ScoresSorted(rows, GroupOf(rows, k))
            IN  [x \in 1..(Len(scores) - 1) |->
                    <<rows[scores[x + 1]].overture_id, rows[scores[1]].overture_id>>]
    IN  DictFromPairs(EmptyDict, Concat([x \in 1..Len(heads) |-> pairsOf(heads[x])]))

\* deduplicate_pois_in_memory without geopandas: the whole of _simple_dedup.
SimpleDedup ==
    /\ pc = "start"
    /\ variant = "simple"
    /\ winners' = (IF batch = <<>> THEN <<>> ELSE SimpleWinners(batch))
    /\ duplicate_mappings' = (IF batch = <<>> THEN EmptyDict ELSE SimpleMappings(batch))
    /\ pc' = "done"
    /\ UNCHANGED <<input, output, batch, variant, liveRows, queryDesc, i, possible_idx,
                   merged_into, clusters, run, first, store>>

(***************************************************************************)
(* deduplicate_staging_pois (main of hydrate_overture_city.py)             *)
(***************************************************************************)
\* A row of staging_rows, by the fields the staging dedup and the sink read.
StagingRow(row) ==
    [name |-> row.name,
     category |-> CategoryMapping[row.overture_category],
     house_number |-> row.house_number,
     postal_code |-> row.postal_code,
     relevance_score |-> row.relevance_score,
     original_category |-> row.overture_category,
     overture_id |-> row.overture_id]

\* The filtering loop of main, as far as the category mapping: a row whose
\* primary category has no internal category is not staged.
StagingRows(rows) ==
    LET kept == SelectSeq(rows, LAMBDA r : r.overture_category \in DOMAIN CategoryMapping)
    IN  [k \in 1..Len(kept) |-> StagingRow(kept[k])]

large_venue_categories == {"park", "university", "stadium"}

\* poi['name'].lower().strip()
BaseName(poi) == LowerStripped[poi.name]

\* `if base_name == other_name`: other_poi joins the cluster of poi.
StagingSameCluster(poi, other_poi) == BaseName(poi) = BaseName(other_poi)

\* The clusters, in order: each opened by the first row not yet used, and
\* holding the later unused rows that match it.
StagingClusters(large) ==
    LET heads == Ascending({k \in 1..Len(large) :
                     \A h \in 1..(k - 1) : ~StagingSameCluster(large[h], large[k])})
        members(k) == Ascending({x \in k..Len(large) : StagingSameCluster(large[k], large[x])})
    IN  [x \in 1..Len(heads) |->
            [y \in 1..Len(members(heads[x])) |-> large[members(heads[x])[y]]]]

\* cluster.sort(key=relevance_score, reverse=True); best = cluster[0]: the
\* first row of the cluster among those of the highest relevance_score.
StagingBest(cluster) ==
    LET top == CHOOSE k \in 1..Len(cluster) :
                   /\ \A y \in 1..Len(cluster) :
                          cluster[y].relevance_score <= cluster[k].relevance_score
                   /\ \A y \in 1..(k - 1) :
                          cluster[y].relevance_score < cluster[k].relevance_score
    IN  cluster[top]

StagingDeduped(staged) ==
    LET large == SelectSeq(staged, LAMBDA p : p.category \in large_venue_categories)
        others == SelectSeq(staged, LAMBDA p : p.category \notin large_venue_categories)
        cl == StagingClusters(large)
    IN  IF large = <<>> THEN staged
        ELSE [x \in 1..Len(cl) |-> StagingBest(cl[x])] \o others

\* The staging pass of main: filter, then deduplicate_staging_pois. It
\* returns rows only; no loser -> winner mapping is produced.
StagingDedup ==
    /\ pc = "start"
    /\ variant = "staging"
    /\ LET staged == StagingRows(batch)
       IN  /\ clusters' = StagingClusters(
                              SelectSeq(staged, LAMBDA p : p.category \in large_venue_categories))
           /\ winners' = StagingDeduped(staged)
    /\ duplicate_mappings' = EmptyDict
    /\ pc' = "done"
    /\ UNCHANGED <<input, output, batch, variant, liveRows, queryDesc, i, possible_idx,
                   merged_into, run, first, store>>

(***************************************************************************)
(* The sink, and the repeat of a batch                                     *)
(***************************************************************************)
\* Upsert of the winners by source id and insertion of the duplicate
\* mappings (the sink is outside the repository's Python sources).
MergeIntoProduction(st, ws, dm) ==
    [places |-> st.places \cup {ws[k].overture_id : k \in 1..Len(ws)},
     mappings |-> DictFromPairs(st.mappings,
                                LET ks == DOMAIN dm
                                    RECURSIVE pairs(_)
                                    pairs(S) == IF S = {} THEN <<>>
                                                ELSE LET k == CHOOSE k \in S : TRUE
                                                     IN  <<<<k, dm[k]>>>> \o pairs(S \ {k})
                                IN  pairs(ks))]

\* The batch is persisted: staging insert, merge into production, commit.
Commit ==
    /\ pc = "done"
    /\ store' = MergeIntoProduction(store, winners, duplicate_mappings)
    /\ pc' = "committed"
    /\ UNCHANGED <<input, output, batch, variant, liveRows, queryDesc, i, possible_idx,
                   merged_into, clusters, winners, duplicate_mappings, run, first>>

\* The same raw batch is fed through the pipeline a second time.
Rerun ==
    /\ pc = "committed"
    /\ run = 1
    /\ run' = 2
    /\ first' = [winners |-> winners, duplicate_mappings |-> duplicate_mappings,
                 store |-> store]
    /\ pc' = "start"
    /\ i' = 0
    /\ possible_idx' = <<>>
    /\ clusters' = <<>>
    /\ winners' = <<>>
    /\ duplicate_mappings' = EmptyDict
    /\ UNCHANGED <<input, output, batch, variant, liveRows, queryDesc, merged_into, store>>

InitWith(pool) ==
    /\ batch \in Batches(pool)
    /\ variant \in {"elite", "simple", "staging"}
    /\ liveRows \in (IF variant = "elite" THEN BOOLEAN ELSE {FALSE})
    /\ queryDesc \in (IF variant = "elite" THEN BOOLEAN ELSE {FALSE})
    /\ pc = "start"
    /\ i = 0
    /\ possible_idx = <<>>
    /\ merged_into = <<>>
    /\ clusters = <<>>
    /\ winners = <<>>
    /\ duplicate_mappings = EmptyDict
    /\ run = 1
    /\ first = NoResult
    /\ store = EmptyStore
    /\ input = <<>>
    /\ output = <<>>

\* Batches of rows with distinct source ids (the data model of the provider).
Init == InitWith(Rows)

\* Batches in which two rows may carry the same source id.
InitDup == InitWith(RowsDup)

Next ==
    \/ EliteStart
    \/ EliteOuter
    \/ EliteInner
    \/ ElitePhase3
    \/ SimpleDedup
    \/ StagingDedup
    \/ Commit
    \/ Rerun

Spec == Init /\ [][Next]_vars

SpecDup == InitDup /\ [][Next]_vars

(***************************************************************************)
(* What the properties are stated over                                     *)
(***************************************************************************)
\* The resolver has returned.
Done == pc \in {"done", "committed"}

\* deduplicate_pois_in_memory, with or without geopandas.
InMemory == variant \in {"elite", "simple"}

\* The source ids the resolver is given: the staging pass sees the rows
\* that the category mapping let through.
InputIds ==
    IF variant = "staging"
    THEN {StagingRows(batch)[k].overture_id : k \in 1..Len(StagingRows(batch))}
    ELSE {batch[k].overture_id : k \in 1..N}

WinnerIds == {winners[k].overture_id : k \in 1..Len(winners)}

\* The row of the batch with a source id (ids are distinct under Spec).
RowOf(id) == CHOOSE r \in {batch[k] : k \in 1..N} : r.overture_id = id

\* The end of the chain of mappings that starts at id.
RECURSIVE FollowIn(_, _, _)
FollowIn(dm, id, n) ==
    IF n = 0 \/ id \notin DOMAIN dm THEN id ELSE FollowIn(dm, dm[id], n - 1)

Resolve(id) == FollowIn(duplicate_mappings, id, N)

\* One of the two rows is mapped to the other.
Linked(a, b) ==
    \/ /\ a.overture_id \in DOMAIN duplicate_mappings
       /\ duplicate_mappings[a.overture_id] = b.overture_id
    \/ /\ b.overture_id \in DOMAIN duplicate_mappings
       /\ duplicate_mappings[b.overture_id] = a.overture_id

\* Two rows of the batch are in one cluster of the staging pass.
SameStagingCluster(a, b) ==
    \E c \in 1..Len(clusters) : \E x, y \in 1..Len(clusters[c]) :
        /\ clusters[c][x].overture_id = a.overture_id
        /\ clusters[c][y].overture_id = b.overture_id

\* The score a resolver elects by.
ElectionScore(row) ==
    IF variant = "elite" THEN CompletenessOf(row)
    ELSE calculate_completeness_score(row, FALSE)

\* The address anchor of test_address_anchoring: two records conflict when
\* both carry a house number, or both a postal code, and these differ.
has_matching_address_anchor(a, b) ==
    /\ ~(Truthy(a.house_number) /\ Truthy(b.house_number)
         /\ a.house_number # b.house_number)
    /\ ~(Truthy(a.postal_code) /\ Truthy(b.postal_code)
         /\ a.postal_code # b.postal_code)

(***************************************************************************)
(* C1 - C5                                                                 *)
(***************************************************************************)
\* C1: category isolation. In every variant, two records whose internal
\* categories differ are never in one cluster: no mapping links them and
\* the staging pass never puts them in the same cluster.
C1_CategoryIsolation ==
    Done =>
        \A x, y \in 1..N :
            InternalCategory(batch[x].overture_category)
                # InternalCategory(batch[y].overture_category)
            => /\ InMemory => ~Linked(batch[x], batch[y])
               /\ variant = "staging" => ~SameStagingCluster(batch[x], batch[y])

\* C2: address anchor. Two records with the same normalized name and
\* distinct non-empty house numbers both stay winners, and no mapping links
\* them.
C2_AddressAnchor ==
    (Done /\ InMemory) =>
        \A x, y \in 1..N :
            (/\ x # y
             /\ NormName[batch[x].name] = NormName[batch[y].name]
             /\ Truthy(batch[x].house_number)
             /\ Truthy(batch[y].house_number)
             /\ batch[x].house_number # batch[y].house_number)
            => /\ batch[x].overture_id \in WinnerIds
               /\ batch[y].overture_id \in WinnerIds
               /\ ~Linked(batch[x], batch[y])

\* C3: source-id override. Two records that carry the same source id are
\* resolved to one entity: they are never both returned as winners.
C3_SourceIdOverride ==
    (Done /\ InMemory) =>
        \A x, y \in 1..N :
            (x # y /\ batch[x].overture_id = batch[y].overture_id)
            => ~(\E u, v \in 1..Len(winners) :
                    winners[u] = batch[x] /\ winners[v] = batch[y])

\* C4: non-destructive. Every source id given to a resolver is the id of a
\* returned winner or a key of the duplicate mapping.
C4_NonDestructive ==
    Done => \A id \in InputIds : id \in WinnerIds \/ id \in DOMAIN duplicate_mappings

\* C5: the target of every duplicate mapping is the id of a returned
\* winner.
C5_TargetIsWinner ==
    Done => \A id \in DOMAIN duplicate_mappings : duplicate_mappings[id] \in WinnerIds

TruePositivePair(x, y) ==
    /\ x # y
    /\ batch[x].geom.kind # "None"
    /\ batch[y].geom.kind # "None"
    /\ SameCategory(batch[x], batch[y])
    /\ Distance(batch[x].geom, batch[y].geom) <= ThresholdOf(batch[x])
    /\ Similarity[<<batch[x].name, batch[y].name>>] >= FUZZY_THRESHOLD
    /\ has_matching_address_anchor(batch[x], batch[y])

\* No third row of the batch has the category of row x and a similar name.
NoOtherMatch(x, y) ==
    \A z \in 1..N \ {x, y} :
        ~(SameCategory(batch[z], batch[x]) /\ NameMatches(batch[z], batch[x]))

DistinctPair(x, y) ==
    /\ x # y
    /\ SameCategory(batch[x], batch[y])
    /\ NormName[batch[x].name] # NormName[batch[y].name]
    /\ Similarity[<<batch[x].name, batch[y].name>>] < FUZZY_THRESHOLD

\* C10 as stated: two such records never resolve to the same winner, not
\* even through intermediate records.
C10_NeverSameWinner ==
    Done =>
        \A x, y \in 1..N :
            DistinctPair(x, y)
            => \/ batch[x].overture_id \notin InputIds
               \/ batch[y].overture_id \notin InputIds
               \/ Resolve(batch[x].overture_id) # Resolve(batch[y].overture_id)

\* C10, amended: two such records are never merged with each other: no
\* duplicate mapping links them and the staging pass never puts them in one
\* cluster.
C10_NeverMergedDirectly ==
    Done =>
        \A x, y \in 1..N :
            DistinctPair(x, y)
            => /\ ~Linked(batch[x], batch[y])
               /\ ~SameStagingCluster(batch[x], batch[y])

\* Two such records, within the merge radius, that share a winner through a
\* third record.
C10_Witness ==
    /\ pc = "done"
    /\ variant = "elite"
    /\ \E x, y \in 1..N :
          /\ DistinctPair(x, y)
          /\ batch[x].geom.kind # "None"
          /\ batch[y].geom.kind # "None"
          /\ Distance(batch[x].geom, batch[y].geom) <= ThresholdOf(batch[x])
          /\ Resolve(batch[x].overture_id) = Resolve(batch[y].overture_id)

(***************************************************************************)
(* C11: rows without a usable geometry                                     *)
(***************************************************************************)
\* Whether phase 1 gave the row a geometry.
Located(row) == row.geom.kind # "None"

\* The batch is resolved again without its rows that have no geometry.
RerunWithoutMalformed ==
    /\ pc = "done"
    /\ run = 1
    /\ run' = 2
    /\ first' = [winners |-> winners, duplicate_mappings |-> duplicate_mappings,
                 store |-> store]
    /\ batch' = SelectSeq(batch, Located)
    /\ pc' = "start"
    /\ i' = 0
    /\ possible_idx' = <<>>
    /\ winners' = <<>>
    /\ duplicate_mappings' = EmptyDict
    /\ UNCHANGED <<input, output, variant, liveRows, queryDesc, merged_into,
                   clusters, store>>

\* deduplicate_pois_in_memory, with geopandas and without it.
InitGeom == InitWith(RowsGeom) /\ variant \in {"elite", "simple"}

NextGeom ==
    \/ EliteStart
    \/ EliteOuter
    \/ EliteInner
    \/ ElitePhase3
    \/ SimpleDedup
    \/ RerunWithoutMalformed

SpecGeom == InitGeom /\ [][NextGeom]_vars

\* The ids that are the target of a duplicate mapping.
MappingTargets == {duplicate_mappings[id] : id \in DOMAIN duplicate_mappings}

\* The rows without geometry are winners and take part in no merge.
MalformedAreSingletons ==
    \A k \in 1..N :
        ~Located(batch[k])
        => /\ \E w \in 1..Len(winners) : winners[w] = batch[k]
           /\ batch[k].overture_id \notin DOMAIN duplicate_mappings
           /\ batch[k].overture_id \notin MappingTargets

\* The second run, without the rows without geometry, gives the result of
\* the first run less those rows.
RestAsIfAbsent ==
    /\ winners = SelectSeq(first.winners, Located)
    /\ duplicate_mappings = first.duplicate_mappings

dedupVars ==
    <<batch, variant, liveRows, queryDesc, i, possible_idx, merged_into,
      clusters, winners, duplicate_mappings, run, first, store>>

\* No batch is being resolved.
NoBatch ==
    /\ batch = <<>>
    /\ variant = "none"
    /\ liveRows = FALSE
    /\ queryDesc = FALSE
    /\ i = 0
    /\ possible_idx = <<>>
    /\ merged_into = <<>>
    /\ clusters = <<>>
    /\ winners = <<>>
    /\ duplicate_mappings = EmptyDict
    /\ run = 1
    /\ first = NoResult
    /\ store = EmptyStore

(***************************************************************************)
(* C12: the normalization key of a name                                    *)
(***************************************************************************)
\* Longest name, in tokens.
MaxTokens == 3

TokBar == <<"B", "a", "r">>
TokDo == <<"d", "o">>
TokAlemao == <<"A", "l", "e", "m", "a~", "o">>
TokAlemaoPlain == <<"a", "l", "e", "m", "a", "o">>
TokThe == <<"T", "h", "e">>
TokGrand == <<"G", "r", "a", "n", "d">>
TokHotel == <<"H", "o", "t", "e", "l">>

KeyTokens == {TokBar, TokDo, TokAlemao, TokAlemaoPlain, TokThe, TokGrand, TokHotel}

\* The connector words among the tokens (Portuguese and English).
Connectors == {TokDo, TokThe}

\* " ".join(tokens)
RECURSIVE JoinTokens(_)
JoinTokens(toks) ==
    IF toks = <<>> THEN <<>>
    ELSE IF Len(toks) = 1 THEN toks[1]
    ELSE toks[1] \o <<" ">> \o JoinTokens(Tail(toks))

\* The token sequences of the names.
TokenSeqs == UNION {[1..n -> KeyTokens] : n \in 1..MaxTokens}

\* The key of a name is computed, and the key of that key.
GenerateKey ==
    /\ pc = "name"
    /\ output' = [key |-> normalize_text(JoinTokens(input)), again |-> None]
    /\ pc' = "key"
    /\ UNCHANGED <<input, dedupVars>>

GenerateKeyAgain ==
    /\ pc = "key"
    /\ output' = [output EXCEPT !.again = normalize_text(output.key)]
    /\ pc' = "keyOfKey"
    /\ UNCHANGED <<input, dedupVars>>

InitKey ==
    /\ NoBatch
    /\ input \in TokenSeqs
    /\ output = <<>>
    /\ pc = "name"

NextKey ==
    \/ GenerateKey
    \/ GenerateKeyAgain

SpecKey == InitKey /\ [][NextKey]_vars

\* The name with its tokens in the order p.
Permuted(toks, p) == [k \in 1..Len(toks) |-> toks[p[k]]]

\* The name without its connector words.
IsContentToken(t) == t \notin Connectors
WithoutConnectors(toks) == SelectSeq(toks, IsContentToken)

\* C12: the key of a key is that key; every permutation of the tokens of a
\* name has the key of the name; the name without its connector words has
\* the key of the name.
C12_KeyContract ==
    /\ pc = "keyOfKey" => output.again = output.key
    /\ pc = "key" =>
           /\ \A p \in Permutations(1..Len(input)) :
                  normalize_text(JoinTokens(Permuted(input, p))) = output.key
           /\ WithoutConnectors(input) # <<>> =>
                  normalize_text(JoinTokens(WithoutConnectors(input))) = output.key

(***************************************************************************)
(* calculate_scores (hydration/scoring.py and hydrate_overture_city.py)    *)
(***************************************************************************)
\* Confidence is in hundredths; a text argument is a tuple of characters,
\* empty for None and for ''.
MaxMagnitude == 4

TxtInstagram == <<"i", "n", "s", "t", "a", "g", "r", "a", "m">>
TxtInstagramCaps == <<"I", "n", "s", "t", "a", "g", "r", "a", "m">>
TxtFacebook == <<"f", "a", "c", "e", "b", "o", "o", "k">>
TxtFacebookCaps == <<"F", "A", "C", "E", "B", "O", "O", "K">>
TxtTwitter == <<"t", "w", "i", "t", "t", "e", "r">>
TxtBlank == <<" ", " ">>
TxtStreet == <<"R", "u", "a", " ", "X", "V">>
TxtNumber == <<"1", "2", "0">>
TxtNeighborhood == <<"C", "e", "n", "t", "r", "o">>

\* An entry of socials: a dict, with or without the key 'platform', or a
\* bare string.
SocialDict(platform) == [type |-> "dict", platform |-> platform]
SocialStr(text) == [type |-> "str", platform |-> text]

SocialsValues ==
    {<<>>,
     <<SocialDict(TxtInstagram)>>,
     <<SocialDict(TxtInstagramCaps)>>,
     <<SocialDict(TxtFacebookCaps)>>,
     <<SocialDict(TxtTwitter)>>,
     <<SocialDict(<<>>)>>,
     <<SocialStr(TxtInstagram)>>,
     <<SocialDict(TxtTwitter), SocialDict(TxtFacebook)>>}

\* websites: None, a list, a tuple, or a bare string.
WebsitesValues ==
    {[type |-> "NoneType", items |-> <<>>],
     [type |-> "list", items |-> <<>>],
     [type |-> "list", items |-> <<"https://a">>],
     [type |-> "tuple", items |-> <<"https://a">>],
     [type |-> "str", items |-> <<"h", "t", "t", "p">>]}

ConfidenceValues == {60, 85, 89, 90, 95}

\* config['categories']['scoring_modifiers']['base_scoring']: a table whose
\* weights are all different sums, and the table of zero weights.
PtsDistinct ==
    [base |-> 1, website |-> 2, social |-> 4, high_confidence |-> 8,
     house_number |-> 16, neighborhood |-> 32, street |-> 64,
     source_magnitude_3plus |-> 128, source_magnitude_2 |-> 256,
     brand_authority |-> 512, dual_presence |-> 1024]

PtsZero ==
    [base |-> 0, website |-> 0, social |-> 0, high_confidence |-> 0,
     house_number |-> 0, neighborhood |-> 0, street |-> 0,
     source_magnitude_3plus |-> 0, source_magnitude_2 |-> 0,
     brand_authority |-> 0, dual_presence |-> 0]

PtsTables == {PtsDistinct, PtsZero}

\* The first loop of calculate_scores, with the platform compared as given.
has_social_exact(socials) ==
    \E k \in 1..Len(socials) :
        /\ socials[k].type = "dict"
        /\ socials[k].platform \in {TxtInstagram, TxtFacebook}

\* The first loop of calculate_scores: a dict whose lower-cased platform is
\* instagram or facebook.
has_social(socials) ==
    \E k \in 1..Len(socials) :
        /\ socials[k].type = "dict"
        /\ lowerText(socials[k].platform) \in {TxtInstagram, TxtFacebook}

\* bool(websites and isinstance(websites, (list, tuple)) and len(websites) > 0)
has_website(websites) ==
    /\ websites.type # "NoneType"
    /\ Len(websites.items) > 0
    /\ websites.type \in {"list", "tuple"}
    /\ Len(websites.items) > 0

\* value and str(value).strip()
Present(value) == value # <<>> /\ strip(value) # <<>>

NoFlags ==
    [magnitude_bonus |-> 0, brand_bonus |-> FALSE,
     dual_presence_bonus |-> FALSE, iconic_bonus |-> FALSE]

\* The value of calculate_scores: None, or (relevance, bonus_flags).
calculate_scores(a) ==
    LET pts == a.pts
        social == has_social(a.socials)
        website == has_website(a.websites)
        has_online == website \/ social
        magnitude == IF a.source_magnitude >= 3 THEN pts.source_magnitude_3plus
                     ELSE IF a.source_magnitude = 2 THEN pts.source_magnitude_2
                     ELSE 0
        relevance ==
            pts.base
            + (IF a.is_iconic THEN 100 ELSE 0)
            + (IF website THEN pts.website ELSE 0)
            + (IF social THEN pts.social ELSE 0)
            + (IF a.confidence >= 90 THEN pts.high_confidence ELSE 0)
            + (IF Present(a.house_number) THEN pts.house_number ELSE 0)
            + (IF Present(a.neighborhood) THEN pts.neighborhood ELSE 0)
            + (IF Present(a.street) THEN pts.street ELSE 0)
            + magnitude
            + (IF a.has_brand THEN pts.brand_authority ELSE 0)
            + (IF website /\ social THEN pts.dual_presence ELSE 0)
    IN  IF ~has_online /\ a.confidence < 90
        THEN [is_none |-> TRUE, relevance |-> 0, bonus_flags |-> NoFlags]
        ELSE [is_none |-> FALSE,
              relevance |-> relevance,
              bonus_flags |->
                  [magnitude_bonus |-> magnitude,
                   brand_bonus |-> a.has_brand,
                   dual_presence_bonus |-> website /\ social,
                   iconic_bonus |-> a.is_iconic]]

\* The arguments of a call of calculate_scores.
ScoreArgs ==
    [confidence : ConfidenceValues,
     websites : WebsitesValues,
     socials : SocialsValues,
     street : {<<>>, TxtBlank, TxtStreet},
     house_number : {<<>>, TxtNumber},
     neighborhood : {<<>>, TxtBlank, TxtNeighborhood},
     source_magnitude : 1..MaxMagnitude,
     has_brand : BOOLEAN,
     is_iconic : BOOLEAN,
     pts : PtsTables]

CalculateScores ==
    /\ pc = "call"
    /\ output' = calculate_scores(input)
    /\ pc' = "return"
    /\ UNCHANGED <<input, dedupVars>>

InitScore ==
    /\ NoBatch
    /\ input \in ScoreArgs
    /\ output = <<>>
    /\ pc = "call"

NextScore == CalculateScores

SpecScore == InitScore /\ [][NextScore]_vars

\* The record has a website list that is not empty.
HasWebsiteList ==
    /\ input.websites.type \in {"list", "tuple"}
    /\ input.websites.items # <<>>

\* The record has a social profile on instagram or facebook.
HasAcceptedSocial ==
    \E k \in 1..Len(input.socials) :
        /\ input.socials[k].type = "dict"
        /\ \/ lowerText(input.socials[k].platform) = TxtInstagram
           \/ lowerText(input.socials[k].platform) = TxtFacebook

\* C13: calculate_scores returns None exactly when the record has no
\* non-empty website list, no social profile on instagram or facebook and a
\* confidence under 0.9, whatever its address, source count, brand and
\* iconic flag; otherwise it returns a (score, flags) pair.
C13_RejectionRule ==
    pc = "return" =>
        (output.is_none <=>
            (~HasWebsiteList /\ ~HasAcceptedSocial /\ input.confidence < 90))

\* An iconic branded record with a full address and three sources, no
\* online presence and confidence 0.85, was rejected.
C13_Witness ==
    /\ pc = "return"
    /\ output.is_none
    /\ input.confidence = 85
    /\ input.is_iconic
    /\ input.has_brand
    /\ input.source_magnitude >= 3
    /\ input.street = TxtStreet
    /\ input.house_number = TxtNumber

\* C14: with every weight of the table zero, the score of every accepted
\* record is zero.
C14_ZeroWeightsZeroScore ==
    (pc = "return" /\ input.pts = PtsZero /\ ~output.is_none)
        => output.relevance = 0

(***************************************************************************)
(* apply_scoring_modifiers (hydration/scoring.py, hydrate_overture_city.py)*)
(***************************************************************************)
\* A multiplier is in hundredths: 25 is 0.25. The multipliers of the model
\* are exact binary fractions, so int(score * modifier) is the integer
\* quotient.
CatFastFoodRestaurant == <<"f", "a", "s", "t", "_", "f", "o", "o", "d", "_", "r", "e", "s", "t", "a", "u", "r", "a", "n", "t">>
CatFastFoodCaps == <<"F", "a", "s", "t", "_", "F", "o", "o", "d">>
CatGasStation == <<"g", "a", "s", "_", "s", "t", "a", "t", "i", "o", "n">>
CatStadium == <<"s", "t", "a", "d", "i", "u", "m">>
CatRestaurant == <<"r", "e", "s", "t", "a", "u", "r", "a", "n", "t">>
CatRestaurantCaps == <<"R", "e", "s", "t", "a", "u", "r", "a", "n", "t">>
KwFastFood == <<"f", "a", "s", "t", "_", "f", "o", "o", "d">>
KwStation == <<"s", "t", "a", "t", "i", "o", "n">>

PenaltyValues == {25, 50, 100}
BoostValues == {150, 200}
ScoreValues == {0, 7, 50, 130}

\* The tables with keys among K and values among V.
Tables(K, V) == UNION {[S -> V] : S \in SUBSET K}

\* config['categories']['scoring_modifiers']: empty, or the three tables.
ModifierConfigs ==
    [empty : {FALSE},
     taxonomy_primary : Tables({CatFastFoodRestaurant, CatGasStation}, PenaltyValues),
     taxonomy_hierarchy_keywords : Tables({KwFastFood, KwStation}, PenaltyValues),
     internal_category : Tables({CatRestaurant, CatStadium}, BoostValues)]
    \cup
    [empty : {TRUE},
     taxonomy_primary : {<<>>},
     taxonomy_hierarchy_keywords : {<<>>},
     internal_category : {<<>>}]

\* sub in s, for two strings.
Contains(sub, s) ==
    \E k \in 0..(Len(s) - Len(sub)) :
        \A h \in 1..Len(sub) : s[k + h] = sub[h]

\* min() of a non-empty set of numbers.
Min(S) == CHOOSE m \in S : \A x \in S : m <= x

\* modifier after the two penalty lookups: min of 1.0, the entry of the
\* primary taxonomy and the keywords contained in the source category.
penalty_modifier(overture_lower, cfg) ==
    Min({100}
        \cup {cfg.taxonomy_primary[c] :
                 c \in {x \in DOMAIN cfg.taxonomy_primary : x = overture_lower}}
        \cup {cfg.taxonomy_hierarchy_keywords[kw] :
                 kw \in {x \in DOMAIN cfg.taxonomy_hierarchy_keywords :
                            Contains(x, overture_lower)}})

\* The boost lookup without its guard on the modifier.
boost_modifier_unguarded(modifier, internal_lower, cfg) ==
    IF internal_lower \in DOMAIN cfg.internal_category
    THEN cfg.internal_category[internal_lower]
    ELSE modifier

\* The boost lookup: only if modifier >= 1.0.
boost_modifier(modifier, internal_lower, cfg) ==
    IF modifier >= 100 /\ internal_lower \in DOMAIN cfg.internal_category
    THEN cfg.internal_category[internal_lower]
    ELSE modifier

\* apply_scoring_modifiers: (modified_score, modifier).
apply_scoring_modifiers(relevance_score, internal_category, overture_category, cfg) ==
    IF cfg.empty
    THEN [modified_score |-> relevance_score, modifier |-> 100]
    ELSE LET modifier ==
                 boost_modifier(penalty_modifier(lowerText(overture_category), cfg),
                                lowerText(internal_category), cfg)
         IN  [modified_score |-> (relevance_score * modifier) \div 100,
              modifier |-> modifier]

ModifierArgs ==
    [relevance_score : ScoreValues,
     internal_category : {<<>>, CatRestaurantCaps, CatStadium},
     overture_category : {<<>>, CatFastFoodRestaurant, CatFastFoodCaps,
                          CatGasStation, CatStadium},
     config : ModifierConfigs]

ApplyScoringModifiers ==
    /\ pc = "call"
    /\ output' = apply_scoring_modifiers(input.relevance_score, input.internal_category,
                                         input.overture_category, input.config)
    /\ pc' = "return"
    /\ UNCHANGED <<input, dedupVars>>

InitModifier ==
    /\ NoBatch
    /\ input \in ModifierArgs
    /\ output = <<>>
    /\ pc = "call"

NextModifier == ApplyScoringModifiers

SpecModifier == InitModifier /\ [][NextModifier]_vars

\* The penalty multipliers that match the source category of the call: the
\* entry of the primary taxonomy for the lower-cased category and the
\* entries of the keywords it contains.
MatchingPenalties ==
    LET cat == lowerText(input.overture_category)
        primary == input.config.taxonomy_primary
        keywords == input.config.taxonomy_hierarchy_keywords
    IN  {p \in PenaltyValues :
            \/ \E c \in DOMAIN primary : c = cat /\ primary[c] = p
            \/ \E kw \in DOMAIN keywords : Contains(kw, cat) /\ keywords[kw] = p}

\* A matching multiplier under 1.0.
PenaltyApplies == \E p \in MatchingPenalties : p < 100

\* C15: when a penalty under 1.0 matches the source category, the modifier
\* is the least matching penalty, whatever the boost table holds; when none
\* does, it is the boost of the internal category, or 1.0 without one; the
\* score is the integer part of score times modifier.
C15_MinPenaltyElseBoost ==
    pc = "return" =>
        LET boosts == input.config.internal_category
            internal == lowerText(input.internal_category)
        IN  /\ PenaltyApplies =>
                   /\ output.modifier \in MatchingPenalties
                   /\ \A p \in MatchingPenalties : output.modifier <= p
            /\ (~PenaltyApplies /\ internal \in DOMAIN boosts) =>
                   output.modifier = boosts[internal]
            /\ (~PenaltyApplies /\ internal \notin DOMAIN boosts) =>
                   output.modifier = 100
            /\ output.modified_score * 100 <= input.relevance_score * output.modifier
            /\ input.relevance_score * output.modifier < (output.modified_score + 1) * 100

\* A category with a primary penalty of 0.5 and a keyword penalty of 0.25,
\* whose internal category has a boost, got 0.25.
C15_Witness ==
    /\ pc = "return"
    /\ MatchingPenalties = {25, 50}
    /\ lowerText(input.internal_category) \in DOMAIN input.config.internal_category
    /\ output.modifier = 25
    /\ input.relevance_score = 130
    /\ output.modified_score = 32

(***************************************************************************)
(* filter_osm_red_flags (hydrate_overture_city.py, hydration/validation.py)*)
(***************************************************************************)
\* A tag bag is a record of the values of its keys, the empty text for a
\* key that the bag does not hold (dict.get(key, '') and dict.get(key) are
\* then both falsy).
ValMassage == <<"m", "a", "s", "s", "a", "g", "e">>
ValMassageCaps == <<"M", "a", "s", "s", "a", "g", "e">>
ValClinic == <<"c", "l", "i", "n", "i", "c">>
ValSpa == <<"s", "p", "a">>
ValSports == <<"S", "p", "o", "r", "t", "s">>
ValMedical == <<"m", "e", "d", "i", "c", "a", "l">>
ValPhysiotherapy == <<"p", "h", "y", "s", "i", "o", "t", "h", "e", "r", "a", "p", "y">>
ValErotic == <<"e", "r", "o", "t", "i", "c">>
ValStripclub == <<"s", "t", "r", "i", "p", "c", "l", "u", "b">>
ValCafe == <<"c", "a", "f", "e">>
FlagStrip == <<"s", "t", "r", "i", "p">>
FlagBrothel == <<"b", "r", "o", "t", "h", "e", "l">>

TagBags ==
    [healthcare : {<<>>, ValMassage, ValMassageCaps, ValClinic},
     massage : {<<>>, ValSpa, ValSports, ValMedical, ValErotic},
     amenity : {<<>>, ValStripclub, ValCafe}]

EmptyTags == [healthcare |-> <<>>, massage |-> <<>>, amenity |-> <<>>]

\* source_raw: None, a bare string, a dict without tags, a dict with tags.
SourceRaws ==
    {[type |-> "NoneType", tags |-> EmptyTags],
     [type |-> "str", tags |-> EmptyTags]}
    \cup [type : {"dict"}, tags : TagBags]

\* config['taxonomy']['osm_red_flags']: key -> forbidden substrings.
RedFlagConfigs ==
    {[healthcare |-> {ValMassage}, amenity |-> {FlagStrip, FlagBrothel}],
     [healthcare |-> {ValMassage}],
     [amenity |-> {FlagStrip, FlagBrothel}]}

\* The massage types that the healthcare rule lets through.
TherapeuticMassage == {ValSpa, <<"s", "p", "o", "r", "t", "s">>, ValMedical, ValPhysiotherapy}

\* filter_osm_red_flags of hydrate_overture_city.py: TRUE to accept.
filter_osm_red_flags(source_raw, osm_flags) ==
    IF source_raw.type # "dict" THEN TRUE
    ELSE IF source_raw.tags = EmptyTags THEN TRUE
    ELSE LET tags == source_raw.tags
             hit(key) ==
                 LET tag_value == lowerText(tags[key])
                 IN  /\ tag_value # <<>>
                     /\ ~(/\ key = "healthcare"
                          /\ tag_value = ValMassage
                          /\ lowerText(tags.massage) \in TherapeuticMassage)
                     /\ \E forbidden \in osm_flags[key] : Contains(forbidden, tag_value)
         IN  ~\E key \in DOMAIN osm_flags : hit(key)

\* filter_osm_red_flags of hydration/validation.py: TRUE to reject.
validation_filter_osm_red_flags(category_tags, osm_red_flags) ==
    IF category_tags = EmptyTags THEN FALSE
    ELSE \E osm_key \in DOMAIN osm_red_flags :
             /\ category_tags[osm_key] # <<>>
             /\ \E flag \in osm_red_flags[osm_key] :
                    Contains(lowerText(flag), lowerText(category_tags[osm_key]))

\* The filter of the city script decides on a record.
FilterHydrate ==
    /\ pc = "call"
    /\ output' = [impl |-> "hydrate_overture_city",
                  rejected |-> ~filter_osm_red_flags(input.source_raw, input.osm_red_flags)]
    /\ pc' = "return"
    /\ UNCHANGED <<input, dedupVars>>

\* The filter of the validation module decides on the tag bag of a record.
FilterValidation ==
    /\ pc = "call"
    /\ input.source_raw.type = "dict"
    /\ output' = [impl |-> "validation",
                  rejected |-> validation_filter_osm_red_flags(input.source_raw.tags,
                                                               input.osm_red_flags)]
    /\ pc' = "return"
    /\ UNCHANGED <<input, dedupVars>>

InitRedFlags ==
    /\ NoBatch
    /\ input \in [source_raw : SourceRaws, osm_red_flags : RedFlagConfigs]
    /\ output = <<>>
    /\ pc = "call"

NextRedFlags ==
    \/ FilterHydrate
    \/ FilterValidation

SpecRedFlags == InitRedFlags /\ [][NextRedFlags]_vars

\* The record is tagged healthcare=massage with a therapeutic massage type.
MassageException ==
    /\ lowerText(input.source_raw.tags.healthcare) = ValMassage
    /\ lowerText(input.source_raw.tags.massage) \in TherapeuticMassage

\* The value of a configured key holds a forbidden substring, the massage
\* exception apart.
RedFlagged ==
    \E key \in DOMAIN input.osm_red_flags :
        /\ ~(key = "healthcare" /\ MassageException)
        /\ \E forbidden \in input.osm_red_flags[key] :
               Contains(forbidden, lowerText(input.source_raw.tags[key]))

\* C17: whichever implementation decides, a record is rejected exactly when
\* the value of a configured key of its tag bag holds a forbidden
\* substring, the healthcare rule letting healthcare=massage through when
\* the massage tag is spa, sports, medical or physiotherapy.
C17_RedFlagsBothImplementations ==
    pc = "return" => (output.rejected <=> RedFlagged)

(***************************************************************************)
(* The filtering loop of main (hydrate_overture_city.py)                   *)
(***************************************************************************)
\* Longest query result, in rows.
MaxResult == 3

CatBar == <<"b", "a", "r">>
CatPub == <<"p", "u", "b">>
CatAdult == <<"a", "d", "u", "l", "t", "_", "e", "n", "t", "e", "r", "t", "a", "i", "n", "m", "e", "n", "t">>
TermAdult == <<"a", "d", "u", "l", "t">>
TermTeste == <<"t", "e", "s", "t", "e">>
TermIgreja == <<"i", "g", "r", "e", "j", "a">>
TermEstadio == <<"e", "s", "t", "a", "d", "i", "o">>
TermArena == <<"a", "r", "e", "n", "a">>
SuffixLtda == <<" ", "L", "t", "d", "a">>
SuffixME == <<" ", "M", "E">>
QNameCentral == <<"B", "a", "r", " ", "C", "e", "n", "t", "r", "a", "l", " ", "L", "t", "d", "a">>
QNamePosto == <<"P", "o", "s", "t", "o", " ", "S", "h", "e", "l", "l">>
QNameRosa == <<"B", "a", "r", " ", "R", "o", "s", "a">>
QNameTeste == <<"B", "a", "r", " ", "T", "e", "s", "t", "e">>
QNameIgreja == <<"B", "a", "r", " ", "d", "a", " ", "I", "g", "r", "e", "j", "a">>
QNameSemSite == <<"B", "a", "r", " ", "S", "e", "m", " ", "S", "i", "t", "e">>
QNameArena == <<"A", "r", "e", "n", "a", " ", "d", "a", " ", "B", "a", "i", "x", "a", "d", "a">>
QNameBurger == <<"B", "u", "r", "g", "e", "r", " ", "S", "u", "l">>
QStreetComma == <<"R", "u", "a", " ", "X", "V", ",", " ", "1", "2", "0">>
QStatePR == <<"P", "R">>
Digits == {"0", "1", "2", "3", "4", "5", "6", "7", "8", "9"}

\* config['categories']['mapping']
category_map ==
    [c \in {CatBar, CatPub, CatFastFoodRestaurant, CatStadium} |->
        CASE c = CatBar -> CatBar
          [] c = CatPub -> CatBar
          [] c = CatFastFoodRestaurant -> CatRestaurant
          [] c = CatStadium -> CatStadium]

\* The configuration that the loop reads.
LoopConfig ==
    [forbidden_hierarchy_terms |-> {TermAdult},
     osm_red_flags |-> [healthcare |-> {ValMassage}, amenity |-> {FlagStrip, FlagBrothel}],
     blacklist |-> {TermTeste},
     suffixes_to_remove |-> <<SuffixLtda, SuffixME>>,
     cross_validation_rules |->
         [c \in {CatStadium, CatBar} |->
             IF c = CatStadium
             THEN [has_required |-> TRUE, required_terms |-> {TermEstadio, TermArena},
                   has_forbidden |-> FALSE, forbidden_terms |-> {}]
             ELSE [has_required |-> FALSE, required_terms |-> {},
                   has_forbidden |-> TRUE, forbidden_terms |-> {TermIgreja}]],
     taxonomy_weights |-> <<[categories |-> <<CatStadium>>, bonus |-> 20]>>,
     pts |-> [base |-> 10, website |-> 15, social |-> 15, high_confidence |-> 10,
              house_number |-> 5, neighborhood |-> 5, street |-> 5,
              source_magnitude_3plus |-> 15, source_magnitude_2 |-> 10,
              brand_authority |-> 15, dual_presence |-> 10],
     modifiers |-> [empty |-> FALSE,
                    taxonomy_primary |-> [c \in {CatFastFoodRestaurant} |-> 25],
                    taxonomy_hierarchy_keywords |-> <<>>,
                    internal_category |-> [c \in {CatStadium} |-> 200]]]

\* A row of the query result, by the columns the loop reads.
QueryRow(id, name, cat, alternate, conf, websites, socials, street, magnitude, brand) ==
    [overture_id |-> id, name |-> name, overture_category |-> cat,
     alternate_categories |-> alternate, street |-> street,
     neighborhood |-> TxtNeighborhood, state |-> QStatePR, confidence |-> conf,
     websites |-> websites, socials |-> socials,
     source_magnitude |-> magnitude, has_brand |-> brand]

NoWebsites == [type |-> "NoneType", items |-> <<>>]
OneWebsite == [type |-> "list", items |-> <<"https://a">>]

QOk ==
    QueryRow("q-ok", QNameCentral, CatPub, <<>>, 95, OneWebsite,
             <<SocialDict(TxtInstagram)>>, QStreetComma, 3, FALSE)
QUnmapped ==
    QueryRow("q-unmapped", QNamePosto, CatGasStation, <<>>, 95, OneWebsite,
             <<>>, TxtStreet, 1, TRUE)
QTaxonomy ==
    QueryRow("q-taxonomy", QNameRosa, CatBar, <<CatAdult>>, 95, OneWebsite,
             <<>>, TxtStreet, 1, FALSE)
QName ==
    QueryRow("q-name", QNameTeste, CatBar, <<>>, 95, OneWebsite,
             <<>>, TxtStreet, 1, FALSE)
QValidation ==
    QueryRow("q-validation", QNameIgreja, CatBar, <<>>, 95, OneWebsite,
             <<>>, TxtStreet, 1, FALSE)
QConfidence ==
    QueryRow("q-confidence", QNameSemSite, CatBar, <<>>, 60, NoWebsites,
             <<>>, <<>>, 1, FALSE)
QStadiumRow ==
    QueryRow("q-stadium", QNameArena, CatStadium, <<>>, 90, NoWebsites,
             <<>>, TxtStreet, 2, FALSE)
QFastFood ==
    QueryRow("q-fastfood", QNameBurger, CatFastFoodRestaurant, <<>>, 80, OneWebsite,
             <<>>, TxtStreet, 1, TRUE)

QueryRows ==
    {QOk, QUnmapped, QTaxonomy, QName, QValidation, QConfidence, QStadiumRow, QFastFood}

\* The results of the query: lists of different rows.
QueryResults ==
    {r \in UNION {[1..n -> QueryRows] : n \in 0..MaxResult} :
        \A a, b \in DOMAIN r : a # b => r[a] # r[b]}

\* The hotlist of the city: none, or one venue per category.
Hotlists ==
    {<<>>, [c \in {CatStadium} |-> {QNameArena}]}

\* The text of a tag key.
TagKeyText ==
    [healthcare |-> <<"h", "e", "a", "l", "t", "h", "c", "a", "r", "e">>, massage |-> <<"m", "a", "s", "s", "a", "g", "e">>,
     amenity |-> <<"a", "m", "e", "n", "i", "t", "y">>]

\* check_taxonomy_hierarchy of hydrate_overture_city.py
check_taxonomy_hierarchy(source_raw, categories_primary, categories_alternate, forbidden_terms) ==
    LET all_categories == <<categories_primary>> \o categories_alternate
        in_categories ==
            \E k \in 1..Len(all_categories) :
                /\ all_categories[k] # <<>>
                /\ \E term \in forbidden_terms :
                       Contains(term, lowerText(all_categories[k]))
        in_tags ==
            /\ source_raw.type = "dict"
            /\ \E key \in DOMAIN source_raw.tags :
                   /\ source_raw.tags[key] # <<>>
                   /\ \E term \in forbidden_terms :
                          Contains(term, lowerText(TagKeyText[key] \o <<":">>
                                                   \o source_raw.tags[key]))
    IN  ~in_categories /\ ~in_tags

\* str.endswith
EndsWith(text, suffix) ==
    /\ Len(suffix) <= Len(text)
    /\ SubSeq(text, Len(text) - Len(suffix) + 1, Len(text)) = suffix

\* The second loop of sanitize_name.
RECURSIVE RemoveSuffixes(_, _)
RemoveSuffixes(cleaned, suffixes) ==
    IF suffixes = <<>> THEN cleaned
    ELSE IF EndsWith(cleaned, Head(suffixes))
    THEN RemoveSuffixes(strip(SubSeq(cleaned, 1, Len(cleaned) - Len(Head(suffixes)))),
                        Tail(suffixes))
    ELSE RemoveSuffixes(cleaned, Tail(suffixes))

\* sanitize_name: the empty text stands for None (both are falsy).
sanitize_name(name, cfg) ==
    IF name = <<>> THEN <<>>
    ELSE IF \E term \in cfg.blacklist : Contains(term, lowerText(name)) THEN <<>>
    ELSE RemoveSuffixes(name, cfg.suffixes_to_remove)

\* validate_category_name of hydrate_overture_city.py
validate_category_name(name, category, rules) ==
    LET name_lower == lowerText(name)
    IN  IF category \notin DOMAIN rules THEN TRUE
        ELSE /\ rules[category].has_required =>
                    \E term \in rules[category].required_terms : Contains(term, name_lower)
             /\ rules[category].has_forbidden =>
                    ~\E term \in rules[category].forbidden_terms : Contains(term, name_lower)

\* fuzz.ratio, in hundredths of a percent.
ratio(s1, s2) == norm_distance(indel_distance(s1, s2), Len(s1) + Len(s2))

\* The score that fuzzy_match_iconic gives a hotlist name, 0 when it is
\* under the threshold required (1.0 for a short name, else 0.92).
iconic_score(name, iconic_name) ==
    LET name_normalized == strip(lowerText(name))
        iconic_normalized == strip(lowerText(iconic_name))
        is_short_name == Len(name_normalized) < 8 \/ Len(iconic_normalized) < 8
        score == IF is_short_name
                 THEN ratio(name_normalized, iconic_normalized)
                 ELSE token_set_ratio(name_normalized, iconic_normalized)
        required_threshold == IF is_short_name THEN 10000 ELSE 9200
    IN  IF score >= required_threshold THEN score ELSE 0

\* fuzzy_match_iconic, is_match only.
fuzzy_match_iconic(name, category, hotlist) ==
    IF hotlist = <<>> \/ name = <<>> \/ category = <<>> THEN FALSE
    ELSE IF category \notin DOMAIN hotlist THEN FALSE
    ELSE LET scores == {0} \cup {iconic_score(name, n) : n \in hotlist[category]}
         IN  \E best_score \in scores :
                 /\ \A x \in scores : best_score >= x
                 /\ IF Len(name) >= 8 THEN best_score >= 9200 ELSE best_score = 10000

\* calculate_taxonomy_weight: the bonus of the first weight type one of
\* whose categories is contained in "<category> <original_category>".
RECURSIVE calculate_taxonomy_weight(_, _, _)
calculate_taxonomy_weight(category, original_category, weights) ==
    LET combined == lowerText(category) \o <<" ">> \o lowerText(original_category)
    IN  IF weights = <<>> THEN 0
        ELSE IF \E k \in 1..Len(Head(weights).categories) :
                    Contains(Head(weights).categories[k], combined)
        THEN Head(weights).bonus
        ELSE calculate_taxonomy_weight(category, original_category, Tail(weights))

\* The house number split off the street at its last comma (lines 778-787).
SplitStreet(street_full) ==
    LET commas == {k \in 1..Len(street_full) : street_full[k] = ","}
        last == CHOOSE k \in commas : \A x \in commas : k >= x
        number == strip(SubSeq(street_full, last + 1, Len(street_full)))
        bare == SelectSeq(number, LAMBDA c : c \notin {"-", "/"})
    IN  IF commas # {} /\ bare # <<>> /\ \A k \in 1..Len(bare) : bare[k] \in Digits
        THEN [street |-> strip(SubSeq(street_full, 1, last - 1)), house_number |-> number]
        ELSE [street |-> street_full, house_number |-> <<>>]

ZeroMetrics ==
    [total_found |-> 0, rejected_category |-> 0, rejected_taxonomy |-> 0,
     rejected_osm_tags |-> 0, rejected_name |-> 0, rejected_validation |-> 0,
     rejected_confidence |-> 0, final_sent_to_staging |-> 0,
     taxonomy_bonus_count |-> 0, penalty_count |-> 0, boost_count |-> 0]

Bump(metrics, counter) == [metrics EXCEPT ![counter] = @ + 1]

\* metrics['total_found'] = len(result)
Query ==
    /\ pc = "query"
    /\ output' = [metrics |-> [ZeroMetrics EXCEPT !.total_found = Len(input.result)],
                  staging_rows |-> <<>>,
                  next |-> 1]
    /\ pc' = "filter"
    /\ UNCHANGED <<input, dedupVars>>

\* The body of `for row in result` for one row: the exit it takes (the
\* counter it increments, "unmapped" for the exit without counter) and, for
\* a row that is staged, the staging row and the diagnostics.
process_row(row, hotlist) ==
    LET cfg == LoopConfig
        overture_cat == row.overture_category
        internal_cat == category_map[overture_cat]
        state_raw == [type |-> "str", tags |-> EmptyTags]
        sanitized_name == sanitize_name(row.name, cfg)
        score_result ==
            calculate_scores(
                [confidence |-> row.confidence, websites |-> row.websites,
                 socials |-> row.socials, street |-> row.street,
                 house_number |-> <<>>, neighborhood |-> row.neighborhood,
                 source_magnitude |-> row.source_magnitude,
                 has_brand |-> row.has_brand,
                 is_iconic |-> fuzzy_match_iconic(sanitized_name, internal_cat, hotlist),
                 pts |-> cfg.pts])
        taxonomy_bonus ==
            calculate_taxonomy_weight(internal_cat, overture_cat, cfg.taxonomy_weights)
        modified ==
            apply_scoring_modifiers(score_result.relevance + taxonomy_bonus,
                                    internal_cat, overture_cat, cfg.modifiers)
        split == SplitStreet(row.street)
        exit(counter) == [exit |-> counter]
    IN  IF overture_cat \notin DOMAIN category_map THEN exit("unmapped")
        ELSE IF ~check_taxonomy_hierarchy(state_raw, overture_cat,
                    row.alternate_categories, cfg.forbidden_hierarchy_terms)
        THEN exit("rejected_taxonomy")
        ELSE IF ~filter_osm_red_flags(state_raw, cfg.osm_red_flags)
        THEN exit("rejected_osm_tags")
        ELSE IF sanitized_name = <<>> THEN exit("rejected_name")
        ELSE IF ~validate_category_name(sanitized_name, internal_cat,
                                        cfg.cross_validation_rules)
        THEN exit("rejected_validation")
        ELSE IF score_result.is_none THEN exit("rejected_confidence")
        ELSE [exit |-> "final_sent_to_staging",
              taxonomy_bonus |-> taxonomy_bonus,
              modifier |-> modified.modifier,
              staged |->
                  [name |-> sanitized_name, category |-> internal_cat,
                   street |-> split.street, house_number |-> split.house_number,
                   relevance_score |-> Min({modified.modified_score, 100}),
                   confidence |-> row.confidence,
                   original_category |-> overture_cat,
                   overture_id |-> row.overture_id]]

\* The counters after a row that took the exit `o`.
Counted(metrics, o) ==
    IF o.exit = "unmapped" THEN metrics
    ELSE IF o.exit # "final_sent_to_staging" THEN Bump(metrics, o.exit)
    ELSE LET m1 == IF o.taxonomy_bonus > 0 THEN Bump(metrics, "taxonomy_bonus_count")
                   ELSE metrics
             m2 == IF o.modifier < 100 THEN Bump(m1, "penalty_count")
                   ELSE IF o.modifier > 100 THEN Bump(m1, "boost_count")
                   ELSE m1
         IN  Bump(m2, "final_sent_to_staging")

\* One turn of `for row in result`.
FilterRow ==
    /\ pc = "filter"
    /\ output.next <= Len(input.result)
    /\ \E o \in {process_row(input.result[output.next], input.hotlist)} :
           output' =
               [output EXCEPT
                   !.next = @ + 1,
                   !.metrics = Counted(@, o),
                   !.staging_rows =
                       IF o.exit = "final_sent_to_staging" THEN Append(@, o.staged) ELSE @]
    /\ UNCHANGED <<pc, input, dedupVars>>

InitLoop ==
    /\ NoBatch
    /\ input \in [result : QueryResults, hotlist : Hotlists]
    /\ output = <<>>
    /\ pc = "query"

NextLoop ==
    \/ Query
    \/ FilterRow

SpecLoop == InitLoop /\ [][NextLoop]_vars

\* The loop has read every row of the result.
LoopDone == pc = "filter" /\ output.next > Len(input.result)

\* C16: at the end of the filtering loop, total_found is the sum of the six
\* rejection counters and final_sent_to_staging.
C16_RejectionAccounting ==
    LoopDone =>
        output.metrics.total_found =
            output.metrics.rejected_category + output.metrics.rejected_taxonomy
            + output.metrics.rejected_osm_tags + output.metrics.rejected_name
            + output.metrics.rejected_validation + output.metrics.rejected_confidence
            + output.metrics.final_sent_to_staging

(***************************************************************************)
(* parse_street_address (hydration/address_parser.py, hydration/utils.py)  *)
(***************************************************************************)
\* Longest address, in characters.
MaxAddr == 5

AddrChars == {"1", "A", "b", " ", ",", "-"}

Addresses == UNION {[1..n -> AddrChars] : n \in 0..MaxAddr}

Letters == {UpperCase[k] : k \in 1..26} \cup {LowerCase[k] : k \in 1..26}

\* [\w/-]
IsTokenChar(c) == c \in Digits \cup Letters \cup {"_", "/", "-"}

\* The whole of x matches \d+[\w/-]*
IsNumberToken(x) ==
    /\ x # <<>>
    /\ x[1] \in Digits
    /\ \A k \in 1..Len(x) : IsTokenChar(x[k])

\* x without its leading whitespace.
DropLeadingSpaces(x) ==
    LET inked == {k \in 1..Len(x) : x[k] # " "}
    IN  IF inked = {} THEN <<>>
        ELSE SubSeq(x, CHOOSE k \in inked : \A y \in inked : k <= y, Len(x))

\* x without its trailing whitespace.
DropTrailingSpaces(x) ==
    LET inked == {k \in 1..Len(x) : x[k] # " "}
    IN  IF inked = {} THEN <<>>
        ELSE SubSeq(x, 1, CHOOSE k \in inked : \A y \in inked : k >= y)

\* number.isdigit() or re.match(r'^\d+[A-Za-z]?$', number)
ClearlyNumeric(number) ==
    /\ number # <<>>
    /\ \A k \in 1..(Len(number) - 1) : number[k] \in Digits
    /\ number[Len(number)] \in Digits \cup Letters
    /\ number[1] \in Digits

NoMatch == [matched |-> FALSE, street |-> <<>>, number |-> <<>>]

\* ^(\d+[\w/-]*)\s+(.+)$ : the token up to the first whitespace, the rest
\* after that whitespace.
Pattern1(t) ==
    LET spaces == {k \in 1..Len(t) : t[k] = " "}
        firstSpace == CHOOSE k \in spaces : \A y \in spaces : k <= y
        rest == DropLeadingSpaces(SubSeq(t, firstSpace, Len(t)))
    IN  IF spaces # {} /\ IsNumberToken(SubSeq(t, 1, firstSpace - 1)) /\ rest # <<>>
        THEN [matched |-> TRUE, street |-> rest, number |-> SubSeq(t, 1, firstSpace - 1)]
        ELSE NoMatch

\* ^(.+?),\s*(\d+[\w/-]*)$ : the token after the last comma, which is not
\* the first character.
Pattern2(t) ==
    LET commas == {k \in 1..Len(t) : t[k] = ","}
        lastComma == CHOOSE k \in commas : \A y \in commas : k >= y
        number == DropLeadingSpaces(SubSeq(t, lastComma + 1, Len(t)))
    IN  IF commas # {} /\ lastComma >= 2 /\ IsNumberToken(number)
        THEN [matched |-> TRUE, street |-> SubSeq(t, 1, lastComma - 1), number |-> number]
        ELSE NoMatch

\* ^(.+?)\s+(\d+[\w/-]*)$ : the token after the last whitespace, the street
\* before the whitespace that precedes it.
Pattern3(t) ==
    LET spaces == {k \in 1..Len(t) : t[k] = " "}
        lastSpace == CHOOSE k \in spaces : \A y \in spaces : k >= y
        number == SubSeq(t, lastSpace + 1, Len(t))
        street == DropTrailingSpaces(SubSeq(t, 1, lastSpace))
    IN  IF spaces # {} /\ IsNumberToken(number) /\ street # <<>>
        THEN [matched |-> TRUE, street |-> street, number |-> number]
        ELSE NoMatch

\* The result (street, house_number); the empty number stands for None.
Parsed(street, number) == [street_is_none |-> FALSE, street |-> street, house_number |-> number]

\* parse_street_address that takes every trailing token for a number.
parse_street_address_any_token(freeform) ==
    IF freeform = <<>>
    THEN [street_is_none |-> TRUE, street |-> <<>>, house_number |-> <<>>]
    ELSE LET t == strip(freeform)
         IN  IF Pattern1(t).matched THEN Parsed(Pattern1(t).street, Pattern1(t).number)
             ELSE IF Pattern2(t).matched THEN Parsed(Pattern2(t).street, Pattern2(t).number)
             ELSE IF Pattern3(t).matched THEN Parsed(Pattern3(t).street, Pattern3(t).number)
             ELSE Parsed(t, <<>>)

\* parse_street_address
parse_street_address(freeform) ==
    IF freeform = <<>>
    THEN [street_is_none |-> TRUE, street |-> <<>>, house_number |-> <<>>]
    ELSE LET t == strip(freeform)
         IN  IF Pattern1(t).matched THEN Parsed(Pattern1(t).street, Pattern1(t).number)
             ELSE IF Pattern2(t).matched THEN Parsed(Pattern2(t).street, Pattern2(t).number)
             ELSE IF Pattern3(t).matched /\ ClearlyNumeric(Pattern3(t).number)
             THEN Parsed(Pattern3(t).street, Pattern3(t).number)
             ELSE Parsed(t, <<>>)

ParseStreetAddress ==
    /\ pc = "call"
    /\ output' = parse_street_address(input)
    /\ pc' = "return"
    /\ UNCHANGED <<input, dedupVars>>

InitAddress ==
    /\ NoBatch
    /\ input \in Addresses
    /\ output = <<>>
    /\ pc = "call"

NextAddress == ParseStreetAddress

SpecAddress == InitAddress /\ [][NextAddress]_vars

\* A run of whitespace.
IsSpaces(x) == \A k \in 1..Len(x) : x[k] = " "

\* A token that begins with a digit and goes on with letters, digits, _, /
\* and -.
IsNumeric(x) ==
    /\ x # <<>>
    /\ \E d \in Digits : x[1] = d
    /\ \A k \in 1..Len(x) :
           \/ x[k] \in Digits
           \/ x[k] \in {"_", "/", "-"}
           \/ \E h \in 1..26 : x[k] = UpperCase[h] \/ x[k] = LowerCase[h]

\* Only digits, or digits and one letter after them.
IsDigitsOrDigitsLetter(x) ==
    /\ IsNumeric(x)
    /\ \A k \in 1..Len(x) : x[k] \notin Digits => (k = Len(x) /\ x[k] \notin {"_", "/", "-"})

\* The ways to read the trimmed input t as number, whitespace, street.
LeadingSplits(t) ==
    {sp \in [number : {SubSeq(t, 1, k) : k \in 1..Len(t)},
             street : {SubSeq(t, k, Len(t)) : k \in 1..Len(t)}] :
        /\ IsNumeric(sp.number)
        /\ \E w \in 1..Len(t) :
               /\ Len(sp.number) + w + Len(sp.street) = Len(t)
               /\ IsSpaces(SubSeq(t, Len(sp.number) + 1, Len(sp.number) + w))
        /\ sp.street[1] # " "}

\* The ways to read t as street, comma, optional whitespace, number.
CommaSplits(t) ==
    {sp \in [number : {SubSeq(t, k, Len(t)) : k \in 1..Len(t)},
             street : {SubSeq(t, 1, k) : k \in 1..Len(t)}] :
        /\ IsNumeric(sp.number)
        /\ Len(sp.street) + 1 + Len(sp.number) <= Len(t)
        /\ t[Len(sp.street) + 1] = ","
        /\ IsSpaces(SubSeq(t, Len(sp.street) + 2, Len(t) - Len(sp.number)))}

\* The ways to read t as street, whitespace, number.
TrailingSplits(t) ==
    {sp \in [number : {SubSeq(t, k, Len(t)) : k \in 1..Len(t)},
             street : {SubSeq(t, 1, k) : k \in 1..Len(t)}] :
        /\ IsNumeric(sp.number)
        /\ Len(sp.street) + 1 + Len(sp.number) <= Len(t)
        /\ IsSpaces(SubSeq(t, Len(sp.street) + 1, Len(t) - Len(sp.number)))
        /\ sp.street[Len(sp.street)] # " "}

\* The result is one of the splits.
ResultIn(splits) ==
    /\ ~output.street_is_none
    /\ \E sp \in splits : output.street = sp.street /\ output.house_number = sp.number

\* C18: the empty input gives (None, None); otherwise, on the trimmed input,
\* a leading numeric token decides; failing that, a numeric token after a
\* comma; failing that, a trailing numeric token, taken only if it is
\* digits or digits and one letter; failing all, the street is the trimmed
\* input and there is no number. A number returned begins with a digit.
C18_PatternPriority ==
    pc = "return" =>
        LET t == strip(input)
            a == LeadingSplits(t)
            b == CommaSplits(t)
            c == TrailingSplits(t)
        IN  /\ input = <<>> =>
                   (output.street_is_none /\ output.house_number = <<>>)
            /\ (input # <<>> /\ a # {}) => ResultIn(a)
            /\ (input # <<>> /\ a = {} /\ b # {}) => ResultIn(b)
            /\ (input # <<>> /\ a = {} /\ b = {} /\ c # {}) =>
                   IF \E sp \in c : IsDigitsOrDigitsLetter(sp.number)
                   THEN ResultIn({sp \in c : IsDigitsOrDigitsLetter(sp.number)})
                   ELSE (~output.street_is_none /\ output.street = t
                         /\ output.house_number = <<>>)
            /\ (input # <<>> /\ a = {} /\ b = {} /\ c = {}) =>
                   (~output.street_is_none /\ output.street = t
                    /\ output.house_number = <<>>)
            /\ output.house_number # <<>> => output.house_number[1] \in Digits

\* An address with a leading number and a number after a comma was parsed
\* by the leading number.
C18_Witness ==
    /\ pc = "return"
    /\ input = <<"1", " ", "A", ",", "1">>
    /\ output.house_number = <<"1">>
    /\ output.street = <<"A", ",", "1">>

(***************************************************************************)
(* compute_poi_boundary (hydration/geofencing.py)                          *)
(***************************************************************************)
\* A geometry is named, not drawn: the POI point is "point", a polygon is
\* its id, and a buffered geometry is [of |-> geometry, meters |-> m]. A
\* candidate polygon carries its distance to the POI in metres and whether
\* it intersects the search circle. Similarity is in hundredths of a
\* percent.
MaxPolygons == 3

AREA_CATEGORIES ==
    {"park", "stadium", "university", "shopping", "event_venue", "museum",
     "club", "theatre"}

POINT_CATEGORIES ==
    {"bar", "nightclub", "restaurant", "cafe", "gym", "plaza", "library",
     "community_centre", "sports_centre", "language_school",
     "commercial_center", "skate_park"}

FALLBACK_RADIUS ==
    [c \in AREA_CATEGORIES |->
        CASE c = "park" -> 400
          [] c = "university" -> 150
          [] c = "stadium" -> 150
          [] c = "shopping" -> 300
          [] c = "event_venue" -> 100
          [] c = "club" -> 200
          [] c = "museum" -> 200
          [] c = "theatre" -> 100]

SAFETY_MARGIN_METERS == 60
DEFAULT_FALLBACK_RADIUS == 300
MAX_DISTANCE_M == 450
MIN_SIMILARITY == 7000
CLOSE_MATCH_DISTANCE_M == 50
CLOSE_MATCH_SIMILARITY == 5000

VALID_LAND_USE_CLASSES ==
    [c \in {"park", "plaza", "university", "shopping", "botanical_garden", "club",
            "museum", "stadium", "event_venue", "theatre"} |->
        CASE c = "park" -> {"park", "recreation_ground", "protected_landscape_seascape",
                            "natural_monument", "meadow", "grass", "playground"}
          [] c = "plaza" -> {"plaza", "pedestrian"}
          [] c = "university" -> {"university", "college"}
          [] c = "shopping" -> {"retail", "commercial"}
          [] c = "botanical_garden" -> {"park", "recreation_ground"}
          [] c = "club" -> {"recreation_ground", "sports_centre", "grass"}
          [] c = "museum" -> {"museum", "attraction"}
          [] c = "stadium" -> {"stadium", "sports_centre", "pitch"}
          [] c = "event_venue" -> {"entertainment"}
          [] c = "theatre" -> {"entertainment", "civic"}]

\* A row of city_polygons_gdf.
PolygonRow(id, name, name_is_str, class, subtype, distance_m, in_search) ==
    [id |-> id, name |-> name, name_is_str |-> name_is_str, class |-> class,
     subtype |-> subtype, distance_m |-> distance_m, in_search |-> in_search]

PolyBarigui == PolygonRow("poly-barigui", NameBarigui, TRUE, "park", None, 0, TRUE)
PolyMunicipalNear == PolygonRow("poly-municipal-near", NameMunicipal, TRUE, "grass", None, 40, TRUE)
PolyMunicipalMid == PolygonRow("poly-municipal-mid", NameMunicipal, TRUE, "park", None, 200, TRUE)
PolyRetail == PolygonRow("poly-retail", NameBarigui, TRUE, None, "retail", 10, TRUE)
PolyFar == PolygonRow("poly-far", NameBarigui, TRUE, "park", None, 600, TRUE)
PolyOutside == PolygonRow("poly-outside", NameBarigui, TRUE, "park", None, 2000, FALSE)
PolyNoName == PolygonRow("poly-noname", <<>>, FALSE, "park", None, 5, TRUE)

PolygonPool ==
    {PolyBarigui, PolyMunicipalNear, PolyMunicipalMid, PolyRetail, PolyFar,
     PolyOutside, PolyNoName}

PolygonSets == {S \in SUBSET PolygonPool : Cardinality(S) <= MaxPolygons}

\* rfuzz.token_set_ratio(poi_name.lower(), poly_name.lower()) for the POI
\* name of the model.
PolygonSimilarity ==
    LET f == [n \in {p.name : p \in PolygonPool} |->
                 token_set_ratio(lowerText(NameBarigui), lowerText(n))]
    IN  IF f = f THEN f ELSE f

\* The column similarity of a candidate.
similarity(poly, rapidfuzz) ==
    IF rapidfuzz /\ poly.name_is_str THEN PolygonSimilarity[poly.name] ELSE 0

\* composite_score, times 4,500,000: 80% similarity and 20% proximity.
composite_score(poly, rapidfuzz) ==
    LET proximity == Max2(0, MAX_DISTANCE_M - poly.distance_m)
    IN  similarity(poly, rapidfuzz) * 8 * 45 + proximity * 2 * 1000

\* _find_matching_polygon with the class test left out of the acceptance.
find_matching_polygon_any_class(poi_category, polygons_gdf, rapidfuzz) ==
    LET possible == {p \in polygons_gdf : p.in_search}
        has_classes == poi_category \in DOMAIN VALID_LAND_USE_CLASSES
        valid_classes == VALID_LAND_USE_CLASSES[poi_category]
        matches_class(p) ==
            has_classes /\ (p.class \in valid_classes \/ p.subtype \in valid_classes)
        class_filtered == {p \in possible : matches_class(p)}
        kept == IF has_classes /\ class_filtered # {} THEN class_filtered ELSE possible
        candidates == {p \in kept : p.distance_m <= MAX_DISTANCE_M}
        bests == {b \in candidates :
                     \A o \in candidates :
                         composite_score(b, rapidfuzz) >= composite_score(o, rapidfuzz)}
        accepted(best) ==
            \/ similarity(best, rapidfuzz) >= MIN_SIMILARITY
            \/ /\ best.distance_m <= CLOSE_MATCH_DISTANCE_M
               /\ similarity(best, rapidfuzz) >= CLOSE_MATCH_SIMILARITY
    IN  IF possible = {} \/ candidates = {} THEN {None}
        ELSE {IF accepted(b) THEN b.id ELSE None : b \in bests}

\* The returns that _find_matching_polygon can give: the id of the accepted
\* polygon or None. Rows of equal composite_score are sorted in either
\* order (sort_values is not stable), so each of them can be the best.
find_matching_polygon(poi_category, polygons_gdf, rapidfuzz) ==
    LET possible == {p \in polygons_gdf : p.in_search}
        has_classes == poi_category \in DOMAIN VALID_LAND_USE_CLASSES
        valid_classes == VALID_LAND_USE_CLASSES[poi_category]
        matches_class(p) ==
            has_classes /\ (p.class \in valid_classes \/ p.subtype \in valid_classes)
        class_filtered == {p \in possible : matches_class(p)}
        kept == IF has_classes /\ class_filtered # {} THEN class_filtered ELSE possible
        candidates == {p \in kept : p.distance_m <= MAX_DISTANCE_M}
        bests == {b \in candidates :
                     \A o \in candidates :
                         composite_score(b, rapidfuzz) >= composite_score(o, rapidfuzz)}
        accepted(best) ==
            \/ /\ similarity(best, rapidfuzz) >= MIN_SIMILARITY
               /\ (~has_classes \/ matches_class(best))
            \/ /\ matches_class(best)
               /\ best.distance_m <= CLOSE_MATCH_DISTANCE_M
               /\ similarity(best, rapidfuzz) >= CLOSE_MATCH_SIMILARITY
    IN  IF possible = {} \/ candidates = {} THEN {None}
        ELSE {IF accepted(b) THEN b.id ELSE None : b \in bests}

\* _buffer_geometry: the geometry grown by `meters`.
buffer_geometry(geom, meters) == [of |-> geom, meters |-> meters]

NoBoundary == [of |-> None, meters |-> 0]

\* The fallback radius taken as the default whatever the category.
fallback_radius_default(poi_category) == DEFAULT_FALLBACK_RADIUS

\* FALLBACK_RADIUS.get(poi_category, 300)
fallback_radius(poi_category) ==
    IF poi_category \in DOMAIN FALLBACK_RADIUS
    THEN FALLBACK_RADIUS[poi_category]
    ELSE DEFAULT_FALLBACK_RADIUS

\* Every category taken for an area category.
boundary_branch_always_area(poi_category) == "attempt-polygon-match"

\* The branch of compute_poi_boundary that a category takes.
boundary_branch(poi_category) ==
    IF poi_category \in AREA_CATEGORIES THEN "attempt-polygon-match"
    ELSE IF poi_category \in POINT_CATEGORIES THEN "point-buffer"
    ELSE "default-buffer"

\* The availability test and the decoding of the POI point.
DecodePoint ==
    /\ pc = "unresolved"
    /\ IF input.geopandas /\ input.decodable
       THEN /\ pc' = boundary_branch(input.poi_category)
            /\ UNCHANGED output
       ELSE /\ pc' = "final"
            /\ output' = [output EXCEPT !.returned = TRUE]
    /\ UNCHANGED <<input, dedupVars>>

\* Area category: the polygon lookup.
AttemptPolygonMatch ==
    /\ pc = "attempt-polygon-match"
    /\ \E found \in (IF input.polygons # {}
                     THEN find_matching_polygon(input.poi_category, input.polygons,
                                                input.rapidfuzz)
                     ELSE {None}) :
           /\ output' = [output EXCEPT !.matched = found, !.attempts = @ + 1]
           /\ pc' = IF found # None THEN "polygon-matched" ELSE "buffer-fallback"
    /\ UNCHANGED <<input, dedupVars>>

\* Area category, polygon accepted: the safety margin around the polygon.
ApplySafetyMargin ==
    /\ pc = "polygon-matched"
    /\ output' = [output EXCEPT
                     !.boundary = buffer_geometry(output.matched, SAFETY_MARGIN_METERS),
                     !.via = "polygon-matched",
                     !.returned = TRUE]
    /\ pc' = "final"
    /\ UNCHANGED <<input, dedupVars>>

\* Area category, no polygon accepted: the circle of the fallback radius
\* plus the safety margin.
FallbackBuffer ==
    /\ pc = "buffer-fallback"
    /\ output' = [output EXCEPT
                     !.boundary = buffer_geometry("point",
                         fallback_radius(input.poi_category) + SAFETY_MARGIN_METERS),
                     !.via = "buffer-fallback",
                     !.returned = TRUE]
    /\ pc' = "final"
    /\ UNCHANGED <<input, dedupVars>>

\* Point category: the circle of the safety margin.
PointBuffer ==
    /\ pc = "point-buffer"
    /\ output' = [output EXCEPT
                     !.boundary = buffer_geometry("point", SAFETY_MARGIN_METERS),
                     !.via = "point-buffer",
                     !.returned = TRUE]
    /\ pc' = "final"
    /\ UNCHANGED <<input, dedupVars>>

\* Unknown category: the circle of the safety margin.
DefaultBuffer ==
    /\ pc = "default-buffer"
    /\ output' = [output EXCEPT
                     !.boundary = buffer_geometry("point", SAFETY_MARGIN_METERS),
                     !.via = "default-buffer",
                     !.returned = TRUE]
    /\ pc' = "final"
    /\ UNCHANGED <<input, dedupVars>>

BoundaryCategories == {"park", "shopping", "stadium", "bar", "cafe", "atelier"}

InitBoundary ==
    /\ NoBatch
    /\ input \in [poi_category : BoundaryCategories,
                  polygons : PolygonSets,
                  geopandas : BOOLEAN,
                  decodable : BOOLEAN,
                  rapidfuzz : BOOLEAN]
    /\ output = [boundary |-> NoBoundary, matched |-> None, via |-> None,
                 attempts |-> 0, returned |-> FALSE]
    /\ pc = "unresolved"

NextBoundary ==
    \/ DecodePoint
    \/ AttemptPolygonMatch
    \/ ApplySafetyMargin
    \/ FallbackBuffer
    \/ PointBuffer
    \/ DefaultBuffer

SpecBoundary == InitBoundary /\ [][NextBoundary]_vars

\* The point of the POI was decoded.
PointDecoded == input.geopandas /\ input.decodable

AllowListed(p, poi_category) ==
    \/ p.class \in VALID_LAND_USE_CLASSES[poi_category]
    \/ p.subtype \in VALID_LAND_USE_CLASSES[poi_category]

MaxAnswers == 2

batch_size == 20
max_candidates == 5
min_similarity == 7000

CategoryPrefixes == <<<<"r", "e", "s", "t", "a", "u", "r", "a", "n", "t", "e", " ">>, <<"b", "a", "r", " ">>, <<"c", "a", "f", "e'", " ">>, <<"c", "l", "u", "b", "e", " ">>>>

LocationPatterns ==
    <<<<" ", "b", "a", "t", "e", "l">>, <<" ", "a'", "g", "u", "a", " ", "v", "e", "r", "d", "e">>, <<" ", "c", "e", "n", "t", "r", "o">>, <<" ", "s", "h", "o", "p", "p", "i", "n", "g">>,
      <<" ", "d", "o", " ", "s", "h", "o", "p", "p", "i", "n", "g">>, <<" ", "d", "o", " ", "p", "a", "r", "q", "u", "e">>, <<" ", "d", "o", " ", "m", "u", "s", "e", "u">>>>

\* str.startswith
StartsWith(text, prefix) ==
    /\ Len(prefix) <= Len(text)
    /\ SubSeq(text, 1, Len(prefix)) = prefix

\* str.replace(pattern, ''), for a non-empty pattern
RECURSIVE RemoveAll(_, _)
RemoveAll(text, pattern) ==
    IF text = <<>> THEN <<>>
    ELSE IF StartsWith(text, pattern)
    THEN RemoveAll(SubSeq(text, Len(pattern) + 1, Len(text)), pattern)
    ELSE <<Head(text)>> \o RemoveAll(Tail(text), pattern)

\* The loop over the category prefixes.
RECURSIVE StripPrefixes(_, _)
StripPrefixes(base_name, prefixes) ==
    IF prefixes = <<>> THEN base_name
    ELSE IF StartsWith(base_name, Head(prefixes))
    THEN StripPrefixes(strip(SubSeq(base_name, Len(Head(prefixes)) + 1, Len(base_name))),
                       Tail(prefixes))
    ELSE StripPrefixes(base_name, Tail(prefixes))

\* The loop over the location patterns.
RECURSIVE StripPatterns(_, _)
StripPatterns(base_name, patterns) ==
    IF patterns = <<>> THEN base_name
    ELSE IF EndsWith(base_name, Head(patterns))
    THEN StripPatterns(strip(RemoveAll(base_name, Head(patterns))), Tail(patterns))
    ELSE StripPatterns(base_name, Tail(patterns))

\* The key under which a hotlist venue is deduplicated.
base_name(venue) ==
    StripPatterns(StripPrefixes(strip(lowerText(venue)), CategoryPrefixes),
                  LocationPatterns)

\* The venues of one category without those whose key was seen before.
RECURSIVE Deduplicated(_, _)
Deduplicated(venues, seen) ==
    IF venues = <<>> THEN <<>>
    ELSE IF base_name(Head(venues)) \in seen
    THEN Deduplicated(Tail(venues), seen)
    ELSE <<Head(venues)>> \o
         Deduplicated(Tail(venues), seen \cup {base_name(Head(venues))})

deduplicated_hotlist(hotlist) ==
    [k \in 1..Len(hotlist) |->
        [category |-> hotlist[k].category,
         venues |-> Deduplicated(hotlist[k].venues, {})]]

\* find_candidates_for_iconic: the POIs of similarity at least
\* min_similarity, by descending similarity (list.sort is stable, so equal
\* similarities keep the order of all_pois), the first max_candidates.
find_candidates_for_iconic(iconic_name, all_pois) ==
    LET iconic_normalized == strip(lowerText(iconic_name))
        sims == [k \in 1..Len(all_pois) |->
                    token_set_ratio(iconic_normalized,
                                    strip(lowerText(all_pois[k].name)))]
        sorted(sim) ==
            LET kept == {k \in 1..Len(all_pois) : sim[k] >= min_similarity}
                rank(k) == Cardinality({j \in kept :
                               \/ sim[j] > sim[k]
                               \/ sim[j] = sim[k] /\ j < k})
            IN  [r \in 1..Min({max_candidates, Cardinality(kept)}) |->
                    all_pois[CHOOSE k \in kept : rank(k) = r - 1]]
    IN  IF sims = sims THEN sorted(sims) ELSE <<>>

\* all_pois_by_category.get(category, [])
PoisOf(all_pois_by_category, category) ==
    IF category \in DOMAIN all_pois_by_category
    THEN all_pois_by_category[category]
    ELSE <<>>

\* Stage 1 for the venues of one category: the entries added to
\* validation_queue.
RECURSIVE QueueOfCategory(_, _)
QueueOfCategory(iconic_names, all_pois) ==
    IF iconic_names = <<>> \/ all_pois = <<>> THEN <<>>
    ELSE LET candidates == find_candidates_for_iconic(Head(iconic_names), all_pois)
             rest == QueueOfCategory(Tail(iconic_names), all_pois)
         IN  IF candidates = <<>> THEN rest
             ELSE <<[iconic_name |-> Head(iconic_names),
                     candidates |-> candidates]>> \o rest

\* Stage 1: validation_queue.
RECURSIVE validation_queue(_, _)
validation_queue(hotlist, all_pois_by_category) ==
    IF hotlist = <<>> THEN <<>>
    ELSE QueueOfCategory(Head(hotlist).venues,
                         PoisOf(all_pois_by_category, Head(hotlist).category))
         \o validation_queue(Tail(hotlist), all_pois_by_category)

\* poi_id_to_name after stage 1: the candidates of all queue entries.
poi_id_to_name(queue) ==
    LET cands == UNION {{queue[q].candidates[c] : c \in 1..Len(queue[q].candidates)} :
                           q \in 1..Len(queue)}
    IN  [id \in {c.id : c \in cands} |-> (CHOOSE c \in cands : c.id = id).name]


\* generate_hotlist: {} without a credential or when the call fails, else
\* the answer of the oracle.
generate_hotlist(api_key, oracle) ==
    IF ~api_key THEN <<>>
    ELSE IF oracle.kind = "fail" THEN <<>>
    ELSE oracle.result

\* ai_validate_matches_batch with the payload of a failed call kept.
ai_validate_matches_batch_unguarded(validation_batch, api_key, oracle) ==
    IF validation_batch = <<>> \/ ~api_key THEN [is_none |-> FALSE, items |-> <<>>]
    ELSE [is_none |-> oracle.kind = "null", items |-> oracle.matches]

\* ai_validate_matches_batch: {} for an empty batch, without a credential
\* or when the call fails, else result.get('matches', {}), which is None
\* for an answer {"matches": null}.
ai_validate_matches_batch(validation_batch, api_key, oracle) ==
    IF validation_batch = <<>> \/ ~api_key THEN [is_none |-> FALSE, items |-> <<>>]
    ELSE IF oracle.kind = "fail" THEN [is_none |-> FALSE, items |-> <<>>]
    ELSE [is_none |-> oracle.kind = "null", items |-> oracle.matches]

\* matched_id of an item after the list handling; 0 stands for None (both
\* are falsy).
MatchedId(item) ==
    IF item.type = "null" THEN 0
    ELSE IF item.ids = <<>> THEN 0
    ELSE item.ids[1]

\* The loop `for iconic_name, matched_id in matches.items()`.
RECURSIVE ProcessResults(_, _, _)
ProcessResults(matched_pois, items, id_to_name) ==
    IF items = <<>> THEN matched_pois
    ELSE LET matched_id == MatchedId(Head(items))
             marked ==
                 IF matched_id # 0 /\ matched_id \in DOMAIN id_to_name
                 THEN [id \in DOMAIN matched_pois \cup {matched_id} |->
                          IF id = matched_id THEN Head(items).iconic_name
                          ELSE matched_pois[id]]
                 ELSE matched_pois
         IN  IF marked = marked THEN ProcessResults(marked, Tail(items), id_to_name)
             ELSE matched_pois

Poi(name, id) == [name |-> name, id |-> id]

IconicBar(k) == <<"B", "a", "r", " ">> \o <<LowerCase[k]>>
IconicBarCentro == <<"b", "a", "r", " ", "a", " ", "C", "e", "n", "t", "r", "o">>
IconicCafe == <<"C", "a", "f", "e", " ", "z">>
IconicPark == <<"P", "a", "r", "q", "u", "e", " ", "x">>

MatcherPois ==
    [c \in {"bar", "cafe"} |->
        IF c = "bar"
        THEN <<Poi(<<"B", "a", "r", " ", "a">>, 1), Poi(<<"B", "a", "r", " ", "a", " ", "C", "e", "n", "t", "r", "o">>, 2), Poi(<<"B", "a", "r", " ", "b">>, 3),
               Poi(<<"B", "a", "r", " ", "c">>, 4), Poi(<<"B", "a", "r", " ", "d">>, 5), Poi(<<"B", "a", "r", " ", "e">>, 6)>>
        ELSE <<Poi(<<"C", "a", "f", "e", " ", "z">>, 7)>>]

HotlistSmall ==
    <<[category |-> "bar", venues |-> <<IconicBar(1), IconicBar(2), IconicBarCentro>>],
      [category |-> "cafe", venues |-> <<IconicCafe>>],
      [category |-> "park", venues |-> <<IconicPark>>]>>

HotlistLarge ==
    <<[category |-> "bar", venues |-> [k \in 1..(batch_size + 1) |-> IconicBar(k)]]>>

HotlistOracle == [kind : {"ok", "fail"}, result : {HotlistSmall, HotlistLarge}]

AnswerValues ==
    {[type |-> "int", ids |-> <<1>>], [type |-> "int", ids |-> <<3>>],
     [type |-> "int", ids |-> <<6>>], [type |-> "int", ids |-> <<7>>],
     [type |-> "int", ids |-> <<9>>],
     [type |-> "null", ids |-> <<>>], [type |-> "list", ids |-> <<7, 1>>],
     [type |-> "list", ids |-> <<>>]}

\* The names that the answers of the model speak of: the first and the
\* last of the batch, and the first of the queue.
AnswerNames(chunk, queue) ==
    {queue[1].iconic_name, chunk[1].iconic_name, chunk[Len(chunk)].iconic_name}

AnswerItems(names) ==
    {[iconic_name |-> n, type |-> v.type, ids |-> v.ids] : n \in names, v \in AnswerValues}

\* The answers: up to MaxAnswers items of distinct names.
Answers(names) ==
    UNION {{a \in [1..len -> AnswerItems(names)] :
               \A x, y \in 1..len : a[x].iconic_name = a[y].iconic_name => x = y} :
           len \in 0..MaxAnswers}

\* What a call of the validation oracle does: it answers, it fails (what it
\* had answered is lost), or it answers {"matches": null}.
BatchOracle(chunk, queue) ==
    [kind : {"ok", "fail"}, matches : Answers(AnswerNames(chunk, queue))]
    \cup {[kind |-> "null", matches |-> <<>>]}

\* generate_hotlist(city_name) of the pipeline, after a cache miss.
GenerateHotlist ==
    /\ pc = "generate"
    /\ \E oracle \in HotlistOracle :
           output' = [output EXCEPT
                         !.hotlist = generate_hotlist(input.api_key, oracle),
                         !.hotlist_call = IF input.api_key THEN oracle.kind ELSE "none"]
    /\ pc' = "match"
    /\ UNCHANGED <<input, dedupVars>>

\* ai_match_iconic_venues up to the end of stage 1.
MatchStage1 ==
    /\ pc = "match"
    /\ IF ~input.api_key
       THEN /\ output' = [output EXCEPT !.returned = <<>>, !.has_returned = TRUE]
            /\ pc' = "return"
       ELSE /\ \E queue \in {validation_queue(deduplicated_hotlist(output.hotlist),
                                              input.all_pois_by_category)} :
                   output' = [output EXCEPT
                                 !.validation_queue = queue,
                                 !.poi_id_to_name = poi_id_to_name(queue)]
            /\ pc' = "stage2"
    /\ UNCHANGED <<input, dedupVars>>

\* One turn of the loop of stage 2: a batch is submitted and its matches
\* are processed.
ValidateBatch ==
    /\ pc = "stage2"
    /\ output.next < Len(output.validation_queue)
    /\ LET queue == output.validation_queue
           chunk == SubSeq(queue, output.next + 1,
                           Min({output.next + batch_size, Len(queue)}))
       IN  \E oracle \in BatchOracle(chunk, queue) :
             \E matches \in {ai_validate_matches_batch(chunk, input.api_key, oracle)} :
               IF matches.is_none
               THEN /\ output' = [output EXCEPT !.calls = Append(@, oracle.kind)]
                    /\ pc' = "raised"
               ELSE /\ output' =
                          [output EXCEPT
                              !.matched_pois =
                                  ProcessResults(@, matches.items, output.poi_id_to_name),
                              !.next = @ + batch_size,
                              !.calls = Append(@, oracle.kind)]
                    /\ pc' = pc
    /\ UNCHANGED <<input, dedupVars>>

\* The end of ai_match_iconic_venues.
MatchReturn ==
    /\ pc = "stage2"
    /\ output.next >= Len(output.validation_queue)
    /\ output' = [output EXCEPT !.returned = output.matched_pois, !.has_returned = TRUE]
    /\ pc' = "return"
    /\ UNCHANGED <<input, dedupVars>>

InitMatcher ==
    /\ NoBatch
    /\ input \in [api_key : BOOLEAN, all_pois_by_category : {MatcherPois}]
    /\ output = [hotlist |-> <<>>, hotlist_call |-> "none", validation_queue |-> <<>>,
                 poi_id_to_name |-> <<>>, next |-> 0, matched_pois |-> <<>>,
                 calls |-> <<>>, returned |-> <<>>, has_returned |-> FALSE]
    /\ pc = "generate"

NextMatcher ==
    \/ GenerateHotlist
    \/ MatchStage1
    \/ ValidateBatch
    \/ MatchReturn

SpecMatcher == InitMatcher /\ [][NextMatcher]_vars

\* The number of batches of a queue.
NumBatches(queue) == (Len(queue) + batch_size - 1) \div batch_size

\* C22: without a credential, or when a call of the oracle fails,
\* generate_hotlist returns the empty hotlist and the pipeline goes on; the
\* matcher returns the empty result without a credential; a failed batch
\* adds no match and the loop goes to the next batch, so that on return
\* every batch was submitted; nothing is raised by a failed call.
C22_OracleFailureDegrades ==
    [][/\ (pc = "generate" /\ (~input.api_key \/ output'.hotlist_call = "fail")) =>
              (output'.hotlist = <<>> /\ pc' = "match")
       /\ (pc = "match" /\ ~input.api_key) =>
              (pc' = "return" /\ output'.returned = <<>> /\ output'.calls = <<>>)
       /\ (pc = "stage2" /\ output'.calls # output.calls
              /\ output'.calls[Len(output'.calls)] = "fail") =>
              /\ pc' = "stage2"
              /\ output'.matched_pois = output.matched_pois
              /\ output'.next = output.next + 20
       /\ (pc' = "return" /\ input.api_key) =>
              /\ Len(output'.calls) = NumBatches(output'.validation_queue)
              /\ output'.returned = output'.matched_pois
       /\ pc' = "raised" => output'.calls[Len(output'.calls)] = "null"]_vars

\* With 21 hotlist names queued, the first batch failed, the second was
\* submitted and answered, and the matcher returned the match of the second.
C22_Witness ==
    /\ pc = "return"
    /\ input.api_key
    /\ Len(output.validation_queue) = 21
    /\ output.calls = <<"fail", "ok">>
    /\ output.returned # <<>>

\* C23: every id marked iconic is one of the candidates that stage 1 queued
\* for the hotlist name it is marked with, and no hotlist name marks two
\* ids.
C23_ConfirmedIsOwnCandidate ==
    /\ \A id \in DOMAIN output.matched_pois :
           \E q \in 1..Len(output.validation_queue) :
               /\ output.validation_queue[q].iconic_name = output.matched_pois[id]
               /\ \E c \in 1..Len(output.validation_queue[q].candidates) :
                      output.validation_queue[q].candidates[c].id = id
    /\ \A id1, id2 \in DOMAIN output.matched_pois :
           output.matched_pois[id1] = output.matched_pois[id2] => id1 = id2

\* ------------------------------------------------------------------
\* The persisting of a batch at the end of main: bulk insert into
\* staging_places, commit, merge_staging_to_production, commit. A staging
\* row is named by its overture_id. output.open_* is what the open
\* transaction of pg_conn holds, output.staging_places and output.places
\* are what is committed. Every statement can raise.
StagedIds == {"ov-1", "ov-2", "ov-3"}
PriorPlaces == {{}, {"ov-0"}}

\* execute_values(pg_cur, insert_sql, staging_rows, page_size=500)
BulkInsert ==
    /\ pc = "insert"
    /\ \/ /\ output' = [output EXCEPT !.open_staging = input.staging_rows]
          /\ pc' = "commit-staging"
       \/ /\ output' = [output EXCEPT !.raised_at = "insert"]
          /\ pc' = "except"
    /\ UNCHANGED <<input, dedupVars>>

\* pg_conn.commit() after the bulk insert.
CommitStaging ==
    /\ pc = "commit-staging"
    /\ \/ /\ output' = [output EXCEPT
                           !.staging_places = @ \cup output.open_staging,
                           !.open_staging = {}]
          /\ pc' = "merge"
       \/ /\ output' = [output EXCEPT !.raised_at = "commit-staging"]
          /\ pc' = "except"
    /\ UNCHANGED <<input, dedupVars>>

\* pg_cur.execute(merge_sql, ...): the rows of staging_places are merged
\* into the places; whether the function empties staging_places is its
\* own matter.
ExecuteMerge ==
    /\ pc = "merge"
    /\ \/ /\ \E emptied \in BOOLEAN :
                output' = [output EXCEPT
                              !.open_places = output.staging_places,
                              !.open_emptied = emptied]
          /\ pc' = "commit-merge"
       \/ /\ output' = [output EXCEPT !.raised_at = "merge"]
          /\ pc' = "except"
    /\ UNCHANGED <<input, dedupVars>>

\* pg_conn.commit() after the merge.
CommitMerge ==
    /\ pc = "commit-merge"
    /\ \/ /\ output' = [output EXCEPT
                           !.places = @ \cup output.open_places,
                           !.staging_places = IF output.open_emptied THEN {} ELSE @,
                           !.open_places = {},
                           !.open_emptied = FALSE]
          /\ pc' = "report"
       \/ /\ output' = [output EXCEPT !.raised_at = "commit-merge"]
          /\ pc' = "except"
    /\ UNCHANGED <<input, dedupVars>>

\* finalize_callback(city_id, 'completed', stats=stats)
FinalizeCompleted ==
    /\ pc = "report"
    /\ output' = [output EXCEPT !.status = "completed", !.exit_code = 0]
    /\ pc' = "exited"
    /\ UNCHANGED <<input, dedupVars>>

\* except Exception: finalize_callback(city_id, 'failed', ...) and
\* sys.exit(1). No rollback is issued; what the open transaction held is
\* gone with the connection.
HandleFailure ==
    /\ pc = "except"
    /\ output' = [output EXCEPT
                     !.status = "failed",
                     !.exit_code = 1,
                     !.open_staging = {},
                     !.open_places = {},
                     !.open_emptied = FALSE]
    /\ pc' = "exited"
    /\ UNCHANGED <<input, dedupVars>>

InitCommit ==
    /\ NoBatch
    /\ input \in [staging_rows : SUBSET StagedIds, places : PriorPlaces]
    /\ output = [open_staging |-> {}, open_places |-> {}, open_emptied |-> FALSE,
                 staging_places |-> {}, places |-> input.places,
                 raised_at |-> None, status |-> "running", exit_code |-> 0]
    /\ pc = "insert"

NextCommit ==
    \/ BulkInsert
    \/ CommitStaging
    \/ ExecuteMerge
    \/ CommitMerge
    \/ FinalizeCompleted
    \/ HandleFailure

SpecCommit == InitCommit /\ [][NextCommit]_vars

\* C24: when a step of the persisting of a batch raised, the run ends as
\* failed with exit code 1 and nothing of the batch is committed, neither
\* in staging_places nor in the places.
C24_BatchCommitAtomic ==
    (pc = "exited" /\ output.raised_at # None) =>
        /\ output.status = "failed"
        /\ output.exit_code = 1
        /\ output.staging_places \cap input.staging_rows = {}
        /\ output.places = input.places

\* ------------------------------------------------------------------
\* The city queue of queue.py: workers running worker_main_loop against
\* the table cities_registry. A city is named by its rank in created_at.
\* output.registry is the committed table, output.lock[c] the worker whose
\* open transaction holds the row lock of c (0 for none), output.city[w]
\* the city that worker w has in hand (0 for none), output.claimed[c] the
\* number of claims of c that were committed. pc[w] is the position of
\* worker w. Every statement sent to the database can raise.
MaxCities == 2
MaxWorkers == 2

Cities == 1..MaxCities
WorkerIds == 1..MaxWorkers

CityRow(status, retry_count) == [status |-> status, retry_count |-> retry_count]

\* The inner SELECT of the claim seen without the row locks.
ClaimableUnlocked(registry, lock, c) ==
    /\ registry[c].status = "pending"
    /\ registry[c].retry_count < 3

\* The inner SELECT of the claim: WHERE status = 'pending' AND
\* retry_count < 3 ... FOR UPDATE SKIP LOCKED.
Claimable(registry, lock, c) ==
    /\ registry[c].status = "pending"
    /\ registry[c].retry_count < 3
    /\ lock[c] = 0

\* handle_city_failure with the city always sent back to the queue.
new_status_always_pending(retry_count) == "pending"

\* new_status of handle_city_failure
new_status(retry_count) ==
    IF retry_count >= 3 THEN "manual_review" ELSE "pending"

\* The timeout test at the head of the loop found the runtime used up.
WorkerTimeout(w) ==
    /\ pc[w] = "loop"
    /\ pc' = [pc EXCEPT ![w] = "done"]
    /\ UNCHANGED <<input, output, dedupVars>>

\* The timeout test passed: a fresh connection is opened.
Connect(w) ==
    /\ pc[w] = "loop"
    /\ pc' = [pc EXCEPT ![w] = "claim"]
    /\ UNCHANGED <<input, output, dedupVars>>

\* claim_next_city_from_queue, cur.execute(query): no row, the oldest
\* claimable row locked and updated in the open transaction, or an
\* exception. Without a row the function returns None and the loop ends.
ExecuteClaim(w) ==
    /\ pc[w] = "claim"
    /\ LET found == {c \in Cities : Claimable(output.registry, output.lock, c)}
       IN  \/ /\ found # {}
              /\ LET c == Min(found)
                 IN  output' = [output EXCEPT !.lock[c] = w, !.city[w] = c]
              /\ pc' = [pc EXCEPT ![w] = "claim-commit"]
           \/ /\ found = {}
              /\ pc' = [pc EXCEPT ![w] = "done"]
              /\ UNCHANGED output
           \/ /\ pc' = [pc EXCEPT ![w] = "done"]
              /\ output' = [output EXCEPT !.raised = @ \cup {"claim"}]
    /\ UNCHANGED <<input, dedupVars>>

\* claim_next_city_from_queue, pg_conn.commit(): the claim is committed
\* and the city returned, or the commit raises, the transaction is rolled
\* back and None is returned.
CommitClaim(w) ==
    /\ pc[w] = "claim-commit"
    /\ LET c == output.city[w]
       IN  \/ /\ output' = [output EXCEPT
                               !.registry[c] =
                                   CityRow("processing", @.retry_count + 1),
                               !.lock[c] = IF @ = w THEN 0 ELSE @,
                               !.claimed[c] = @ + 1]
              /\ pc' = [pc EXCEPT ![w] = "process"]
           \/ /\ output' = [output EXCEPT
                               !.lock[c] = IF @ = w THEN 0 ELSE @,
                               !.city[w] = 0,
                               !.raised = @ \cup {"claim-commit"}]
              /\ pc' = [pc EXCEPT ![w] = "done"]
    /\ UNCHANGED <<input, dedupVars>>

\* process_single_city(city_data, pg_conn) returns or raises.
ProcessCity(w) ==
    /\ pc[w] = "process"
    /\ \/ pc' = [pc EXCEPT ![w] = "mark"]
       \/ pc' = [pc EXCEPT ![w] = "failure"]
    /\ UNCHANGED <<input, output, dedupVars>>

\* mark_city_completed: the update is committed, or it raises and is
\* rolled back; the exception is not passed on.
MarkCityCompleted(w) ==
    /\ pc[w] = "mark"
    /\ LET c == output.city[w]
       IN  \/ output' = [output EXCEPT
                            !.registry[c].status = "completed",
                            !.city[w] = 0]
           \/ output' = [output EXCEPT
                            !.city[w] = 0,
                            !.raised = @ \cup {"mark"}]
    /\ pc' = [pc EXCEPT ![w] = "loop"]
    /\ UNCHANGED <<input, dedupVars>>

\* handle_city_failure: the status chosen from retry_count is committed,
\* or a statement raises and is rolled back; the exception is not passed
\* on.
HandleCityFailure(w) ==
    /\ pc[w] = "failure"
    /\ LET c == output.city[w]
       IN  \/ output' = [output EXCEPT
                            !.registry[c].status =
                                new_status(output.registry[c].retry_count),
                            !.city[w] = 0]
           \/ output' = [output EXCEPT
                            !.city[w] = 0,
                            !.raised = @ \cup {"failure"}]
    /\ pc' = [pc EXCEPT ![w] = "loop"]
    /\ UNCHANGED <<input, dedupVars>>

InitialCityRows ==
    {CityRow("pending", 0), CityRow("completed", 1), CityRow("manual_review", 3)}

InitQueue ==
    /\ NoBatch
    /\ input \in [registry : [Cities -> InitialCityRows]]
    /\ output = [registry |-> input.registry,
                 lock |-> [c \in Cities |-> 0],
                 city |-> [w \in WorkerIds |-> 0],
                 claimed |-> [c \in Cities |-> 0],
                 raised |-> {}]
    /\ pc = [w \in WorkerIds |-> "loop"]

WorkerStep(w) ==
    \/ WorkerTimeout(w)
    \/ Connect(w)
    \/ ExecuteClaim(w)
    \/ CommitClaim(w)
    \/ ProcessCity(w)
    \/ MarkCityCompleted(w)
    \/ HandleCityFailure(w)

NextQueue == \E w \in WorkerIds : WorkerStep(w)

SpecQueue == InitQueue /\ [][NextQueue]_vars

\* The workers run fairly.
SpecQueueFair == SpecQueue /\ \A w \in WorkerIds : WF_vars(WorkerStep(w))

\* No city is in the hands of two workers.
NoDoubleClaim ==
    \A w1, w2 \in WorkerIds :
        (w1 # w2 /\ output.city[w1] # 0) => output.city[w1] # output.city[w2]

\* C25: no city is in the hands of two workers at once; a claim that
\* returns a city returns one that was 'pending', makes it 'processing'
\* with retry_count one higher, and changes no other city.
C25_AtomicClaim ==
    [][/\ NoDoubleClaim'
       /\ \A w \in WorkerIds :
              (pc[w] = "claim-commit" /\ pc'[w] = "process") =>
                  LET c == output.city[w]
                  IN  /\ output.registry[c].status = "pending"
                      /\ output'.registry[c] =
                             CityRow("processing", output.registry[c].retry_count + 1)
                      /\ \A d \in Cities \ {c} :
                             output'.registry[d] = output.registry[d]]_vars

\* Two workers claim at the same time: the first holds the lock of city 1,
\* not yet committed, and the second took city 2.
C25_Witness ==
    /\ pc[1] = "claim-commit"
    /\ pc[2] = "claim-commit"
    /\ output.city[1] = 1
    /\ output.city[2] = 2
    /\ output.lock[1] = 1

\* C26: a failure sends the city to 'pending' while retry_count is below 3
\* and to 'manual_review' from 3 on; no city is claimed more than 3 times
\* and none is 'pending' with retry_count 3 or more.
C26_RetryLimit ==
    [][/\ \A c \in Cities :
              /\ output'.claimed[c] <= 3
              /\ ~(output'.registry[c].status = "pending"
                      /\ output'.registry[c].retry_count >= 3)
       /\ \A w \in WorkerIds :
              (pc[w] = "failure" /\ pc'[w] = "loop"
                  /\ output'.registry # output.registry) =>
                  LET c == output.city[w]
                  IN  /\ output.registry[c].retry_count < 3 =>
                             output'.registry[c].status = "pending"
                      /\ output.registry[c].retry_count >= 3 =>
                             output'.registry[c].status = "manual_review"
                      /\ output'.registry[c].retry_count =
                             output.registry[c].retry_count]_vars

\* A city that was claimed three times and failed three times is in
\* 'manual_review'.
C26_Witness ==
    \E c \in Cities :
        /\ input.registry[c] = CityRow("pending", 0)
        /\ output.claimed[c] = 3
        /\ output.registry[c] = CityRow("manual_review", 3)

\* C30: under fair workers, a city that is 'processing' eventually is not,
\* every city ends in 'completed' or 'manual_review' for good, and every
\* worker ends.
C30_QueueProgress ==
    /\ \A c \in Cities :
           (output.registry[c].status = "processing") ~>
               (output.registry[c].status # "processing")
    /\ <>[](\A c \in Cities :
               output.registry[c].status \in {"completed", "manual_review"})
    /\ <>(\A w \in WorkerIds : pc[w] = "done")

\* ------------------------------------------------------------------
\* The election of the winner of a matched pair (row_i, row_j), for every
\* combination of the completeness fields of the two rows.
CompletenessRows ==
    [street : {"", "Rua XV"}, house_number : {"", "100"}, postal_code : {"", "82000"},
     websites : {<<>>, <<"site">>}, socials : {<<>>, <<"instagram">>},
     confidence : {0, 1, 50, 100}, is_real_polygon : BOOLEAN]

\* MATCH FOUND - Determine winner (the spatial resolver)
ElectWinner ==
    /\ pc = "matched"
    /\ input.variant = "elite"
    /\ LET i_score == calculate_completeness_score(input.row_i, input.row_i.is_real_polygon)
           j_score == calculate_completeness_score(input.row_j, input.row_j.is_real_polygon)
       IN  output' = [i_score |-> i_score, j_score |-> j_score,
                      winner |-> IF IWins(i_score, j_score) THEN "i" ELSE "j"]
    /\ pc' = "elected"
    /\ UNCHANGED <<input, dedupVars>>

\* "Select winner by completeness" of _simple_dedup, for a group of two
\* rows, row_i before row_j in pois_list: the pairs (score, idx) are
\* sorted in descending order, calculate_completeness_score being called
\* without has_real_polygon.
SimpleElectWinner ==
    /\ pc = "matched"
    /\ input.variant = "simple"
    /\ LET i_score == calculate_completeness_score(input.row_i, FALSE)
           j_score == calculate_completeness_score(input.row_j, FALSE)
       IN  output' = [i_score |-> i_score, j_score |-> j_score,
                      winner |-> IF i_score > j_score THEN "i" ELSE "j"]
    /\ pc' = "elected"
    /\ UNCHANGED <<input, dedupVars>>

InitElect ==
    /\ NoBatch
    /\ input \in [row_i : CompletenessRows, row_j : CompletenessRows,
                  variant : {"elite", "simple"}]
    /\ output = [i_score |-> 0, j_score |-> 0, winner |-> None]
    /\ pc = "matched"

NextElect ==
    \/ ElectWinner
    \/ SimpleElectWinner

SpecElect == InitElect /\ [][NextElect]_vars

\* The row with the real polygon, when exactly one of the two has one, is
\* the winner.
PolygonRowWins ==
    /\ (input.row_i.is_real_polygon /\ ~input.row_j.is_real_polygon) =>
           output.winner = "i"
    /\ (input.row_j.is_real_polygon /\ ~input.row_i.is_real_polygon) =>
           output.winner = "j"

final_relevance_score(a) ==
    LET internal_cat == category_map[a.overture_cat]
        score_result == calculate_scores(a.score_args)
        taxonomy_bonus ==
            calculate_taxonomy_weight(internal_cat, a.overture_cat, a.taxonomy_weights)
        modified ==
            apply_scoring_modifiers(score_result.relevance + taxonomy_bonus,
                                    internal_cat, a.overture_cat, a.modifiers)
    IN  IF score_result.is_none
        THEN [is_none |-> TRUE, relevance_score |-> 0, modifier |-> 100]
        ELSE [is_none |-> FALSE,
              relevance_score |-> Min({modified.modified_score, 100}),
              modifier |-> modified.modifier]

\* Records of the mapped categories under the configured tables, all weights
\* non-negative.
FinalScoreArgs ==
    [score_args :
         [confidence : {85, 95},
          websites : {[type |-> "NoneType", items |-> <<>>],
                      [type |-> "list", items |-> <<"https://a">>]},
          socials : {<<>>, <<SocialDict(TxtInstagram)>>},
          street : {TxtStreet},
          house_number : {<<>>},
          neighborhood : {<<>>, TxtNeighborhood},
          source_magnitude : {1},
          has_brand : {FALSE},
          is_iconic : BOOLEAN,
          pts : {LoopConfig.pts, PtsZero}],
     overture_cat : DOMAIN category_map,
     taxonomy_weights : {<<>>, LoopConfig.taxonomy_weights},
     modifiers : {LoopConfig.modifiers,
                  [empty |-> TRUE, taxonomy_primary |-> <<>>,
                   taxonomy_hierarchy_keywords |-> <<>>, internal_category |-> <<>>]}]

FinalScore ==
    /\ pc = "call"
    /\ output' = final_relevance_score(input)
    /\ pc' = "return"
    /\ UNCHANGED <<input, dedupVars>>

InitFinalScore ==
    /\ NoBatch
    /\ input \in FinalScoreArgs
    /\ output = <<>>
    /\ pc = "call"

NextFinalScore == FinalScore

SpecFinalScore == InitFinalScore /\ [][NextFinalScore]_vars

\* C28: a record the scorer accepts with is_iconic = true is staged with a
\* relevance score of exactly 100, which no non-iconic record exceeds.
C28_IconicReachesCap ==
    (pc = "return" /\ input.score_args.is_iconic /\ ~output.is_none)
        => /\ output.relevance_score = 100
           /\ \A b \in FinalScoreArgs :
                  (~b.score_args.is_iconic /\ ~final_relevance_score(b).is_none)
                      => output.relevance_score >= final_relevance_score(b).relevance_score


\* ---------------------------------------------------------------------------
\* The returned winners against the merge predicate
\* ---------------------------------------------------------------------------

\* The merge predicate between two point rows: same internal category, name
\* similarity at or above FUZZY_THRESHOLD, and the same location or a
\* distance within 1500 m for a large-venue category and 30 m otherwise.
MergePredicate(row_a, row_b) ==
    /\ row_a.geom.kind = "Point"
    /\ row_b.geom.kind = "Point"
    /\ InternalCategory(row_a.overture_category) = InternalCategory(row_b.overture_category)
    /\ Similarity[<<row_a.name, row_b.name>>] >= FUZZY_THRESHOLD
    /\ \/ row_a.geom.lo = row_b.geom.lo
       \/ Distance(row_a.geom, row_b.geom)
              <= (IF InternalCategory(row_a.overture_category) \in LARGE_VENUE_CATEGORIES
                  THEN 1500 ELSE 30)

NoDuplicateWinners ==
    \A x, y \in 1..Len(winners) :
        x # y => ~MergePredicate(winners[x], winners[y])

=============================================================================
